---- MODULE Spec2Model ----
(***************************************************************************)
(* A model of the farm-management dashboard: the carbon-credit estimate,   *)
(* the relational tables (farmers, ivr_calls, carbon_credits,              *)
(* api_credentials) with the constraints their migrations declare, and the *)
(* edge handlers and client services that read and write them.             *)
(*                                                                         *)
(* Numbers with decimals are fixed point: rates, multipliers and acreage   *)
(* are held in tenths, estimated credits in hundredths.                    *)
(***************************************************************************)
EXTENDS Integers, Sequences, FiniteSets, TLC

VARIABLES
    calc,             \* the credit calculation under test: inputs and both results
    farmers,          \* table farmers: sequence of rows in insertion order
    ivr_calls,        \* table ivr_calls
    carbon_credits,   \* table carbon_credits
    api_credentials,  \* table api_credentials
    nextId,           \* gen_random_uuid(): the next fresh row id
    pc,               \* per request slot: the await the handler is suspended at
    local,            \* per request slot: the handler's local variables
    response,         \* the response of the last operation, if a handler's
    outbound,         \* the outbound calls of the last operation, in order
    client,           \* what the last operation of a client service settled with
    maps              \* GoogleMapsLoader, its promises, and the page it loads into

vars == <<calc, farmers, ivr_calls, carbon_credits, api_credentials, nextId,
          pc, local, response, outbound, client, maps>>

dbVars == <<farmers, ivr_calls, carbon_credits, api_credentials, nextId>>
procVars == <<pc, local, response, outbound>>
clientVars == <<client, maps>>

\* The promise a client service returned: the operation, how it settled, and
\* of the value it resolved with the fields the callers read.
Result(op, settled, farmerId, source, status, messageId) ==
    [op |-> op, settled |-> settled, farmerId |-> farmerId, source |-> source,
     status |-> status, messageId |-> messageId]

NoResult == Result("none", "none", 0, "none", "none", "none")

\* GoogleMapsLoader after construction (loadPromise = null, isLoaded = false,
\* config = null) in a page without window.google and without Maps scripts.
\* scripts are the script elements the loader created, document the ones
\* that are in the page, promises the load promises, returned what each load
\* call handed to its caller.
NoMaps ==
    [isLoaded |-> FALSE, loadPromise |-> 0, config |-> "none", google |-> FALSE,
     scripts |-> <<>>, document |-> {}, promises |-> <<>>, returned |-> <<>>]

InitClient == client = NoResult /\ maps = NoMaps

(***************************************************************************)
(* Bounds of the model.                                                    *)
(***************************************************************************)
MaxPractices == 2

Undefined == "undefined"

(***************************************************************************)
(* Carbon-credit estimate.                                                 *)
(***************************************************************************)

\* creditRates, in tenths of a credit per acre.
creditRates ==
    ("no-till" :> 5) @@ ("cover-cropping" :> 3) @@ ("rotational-grazing" :> 4) @@
    ("agroforestry" :> 8) @@ ("precision-agriculture" :> 2) @@ ("organic-farming" :> 6)

\* cropMultipliers, in tenths.
cropMultipliers ==
    ("corn" :> 10) @@ ("soy" :> 11) @@ ("wheat" :> 9) @@ ("rice" :> 12) @@ ("cotton" :> 8)

\* Both tables are object literals: a key that is not an own property is looked
\* up on Object.prototype, whose properties are functions or objects.
ObjectPrototypeKeys ==
    {"constructor", "toString", "valueOf", "hasOwnProperty", "__proto__"}

\* table[key] of an object literal: a number, an inherited (truthy, non-numeric)
\* value, or undefined.
PropertyLookup(table, key) ==
    IF key \in DOMAIN table THEN [kind |-> "number", v |-> table[key]]
    ELSE IF key \in ObjectPrototypeKeys THEN [kind |-> "inherited", v |-> 0]
    ELSE [kind |-> Undefined, v |-> 0]

\* x || d for a looked-up value: d when x is undefined or 0.
OrDefault(x, d) ==
    IF x.kind = Undefined \/ (x.kind = "number" /\ x.v = 0)
    THEN [kind |-> "number", v |-> d]
    ELSE x

NaN == [nan |-> TRUE, v |-> 0]
Num(n) == [nan |-> FALSE, v |-> n]

\* a * b where a is a looked-up value and b a number: NaN when a is no number.
Times(a, b) ==
    IF a.kind = "number" /\ ~b.nan THEN Num(a.v * b.v) ELSE NaN

Plus(a, b) == IF a.nan \/ b.nan THEN NaN ELSE Num(a.v + b.v)

\* String.prototype.toLowerCase on the crop strings of the model.
ToLowerCase(s) ==
    CASE s = "Corn" -> "corn"
      [] s = "RICE" -> "rice"
      [] s = "Soy" -> "soy"
      [] s = "toString" -> "tostring"
      [] OTHER -> s

\* Math.round(x * 100) / 100 for x in thousandths: the nearest hundredth, a
\* half rounded towards +infinity.
RoundHundredths(x) ==
    IF x.nan THEN NaN ELSE Num((x.v + 5) \div 10)

\* practices.forEach(practice => { rate = creditRates[practice] || 0.1;
\*                                 estimatedCredits += rate * acreage })
RECURSIVE SumPractices(_, _)
SumPractices(practices, acreage) ==
    IF practices = <<>> THEN Num(0)
    ELSE LET rate == OrDefault(PropertyLookup(creditRates, Head(practices)), 1)
         IN  Plus(Times(rate, Num(acreage)), SumPractices(Tail(practices), acreage))

\* CarbonCreditService.calculateEstimatedCredits
calculateEstimatedCredits(practices, acreage, cropType) ==
    LET estimatedCredits == SumPractices(practices, acreage)
        multiplier == OrDefault(PropertyLookup(cropMultipliers, ToLowerCase(cropType)), 10)
    IN  RoundHundredths(IF estimatedCredits.nan THEN NaN ELSE Times(multiplier, estimatedCredits))

\* carbon-credit-integration, POST: estimatedCredits *= multiplier, stored as
\* Math.round(estimatedCredits * 100) / 100.
EdgeEstimatedCredits(practices, acreage, cropType) ==
    LET summed == SumPractices(practices, acreage)
        multiplier == OrDefault(PropertyLookup(cropMultipliers, ToLowerCase(cropType)), 10)
        estimatedCredits == IF summed.nan THEN NaN ELSE Times(multiplier, summed)
    IN  RoundHundredths(estimatedCredits)

PracticeStrings == {"no-till", "agroforestry", "organic-farming", "composting", "constructor"}
CropStrings == {"corn", "RICE", "Soy", "wheat", "barley", "toString", "constructor"}
AcreageValues == {0, 5, 10, 25, 1000}

SeqsUpTo(S, n) == UNION {[1..k -> S] : k \in 0..n}

CalcInit ==
    calc \in [practices : SeqsUpTo(PracticeStrings, MaxPractices),
              acreage : AcreageValues,
              cropType : CropStrings,
              serviceDone : {FALSE}, service : {Num(0)},
              edgeDone : {FALSE}, edge : {Num(0)}]

\* The dashboard evaluates carbonCreditService.calculateEstimatedCredits.
ServiceCalculate ==
    /\ ~calc.serviceDone
    /\ calc' = [calc EXCEPT !.serviceDone = TRUE, !.service =
                   calculateEstimatedCredits(calc.practices, calc.acreage, calc.cropType)]
    /\ UNCHANGED <<dbVars, procVars, clientVars>>

\* The POST handler of carbon-credit-integration computes its estimate.
EdgeCalculate ==
    /\ ~calc.edgeDone
    /\ calc' = [calc EXCEPT !.edgeDone = TRUE, !.edge =
                   EdgeEstimatedCredits(calc.practices, calc.acreage, calc.cropType)]
    /\ UNCHANGED <<dbVars, procVars, clientVars>>

IdleDb ==
    /\ farmers = <<>> /\ ivr_calls = <<>> /\ carbon_credits = <<>>
    /\ api_credentials = <<>>
    /\ nextId = [t \in {"farmers", "ivr_calls", "carbon_credits"} |-> 1]

IdleProcs ==
    /\ pc = <<>> /\ local = <<>> /\ response = <<>> /\ outbound = <<>>
    /\ InitClient

InitCredits == CalcInit /\ IdleDb /\ IdleProcs
NextCredits == ServiceCalculate \/ EdgeCalculate
SpecCredits == InitCredits /\ [][NextCredits]_vars

(***************************************************************************)
(* C1: for every practices list, acreage and cropType both calculations    *)
(* return (sum of rate(p) * acreage) * multiplier(cropType) rounded to two *)
(* decimals, rate(p) being the table rate and 0.1 for any other string,    *)
(* multiplier the table value of the lower-cased crop and 1.0 otherwise.   *)
(***************************************************************************)
ClaimedRate(p) == IF p \in DOMAIN creditRates THEN creditRates[p] ELSE 1
ClaimedMultiplier(c) ==
    IF ToLowerCase(c) \in DOMAIN cropMultipliers THEN cropMultipliers[ToLowerCase(c)] ELSE 10

RECURSIVE ClaimedSum(_, _)
ClaimedSum(practices, acreage) ==
    IF practices = <<>> THEN 0
    ELSE ClaimedRate(Head(practices)) * acreage + ClaimedSum(Tail(practices), acreage)

ClaimedCredits(practices, acreage, cropType) ==
    Num((ClaimedSum(practices, acreage) * ClaimedMultiplier(cropType) + 5) \div 10)

C1_CreditsAsDocumented ==
    /\ calc.serviceDone =>
         calc.service = ClaimedCredits(calc.practices, calc.acreage, calc.cropType)
    /\ calc.edgeDone =>
         calc.edge = ClaimedCredits(calc.practices, calc.acreage, calc.cropType)

(***************************************************************************)
(* Requests, responses and the request slots the handlers run in.          *)
(***************************************************************************)
NumRequests == 2

Procs == 1..NumRequests

Methods == {"OPTIONS", "GET", "POST", "PUT"}

\* A response: status, whether it carries corsHeaders, the kind of body, the
\* body's success field ("true", "false" or "absent"), whether the body has a
\* message / an error field, and whether it answers a caught exception.
Resp(handler, status, cors, body, success, message, error, caught) ==
    [handler |-> handler, status |-> status, cors |-> cors, body |-> body,
     success |-> success, message |-> message, error |-> error, caught |-> caught]

NoResponse == Resp("none", 0, FALSE, "none", "absent", FALSE, FALSE, FALSE)
NoLocal == [handler |-> "none"]

\* new Response(null, { status: 200, headers: corsHeaders }) for OPTIONS
Preflight(handler) == Resp(handler, 200, TRUE, "empty", "absent", FALSE, FALSE, FALSE)

\* JSON body { success, message }
JsonSuccessMessage(handler, status, success, caught) ==
    Resp(handler, status, TRUE, "json", success, TRUE, FALSE, caught)

\* JSON body { success, error }
JsonSuccessError(handler, status, success, caught) ==
    Resp(handler, status, TRUE, "json", success, FALSE, TRUE, caught)

\* The handler returns: the slot is free again and holds the response.
Return(p, r) ==
    /\ pc' = [pc EXCEPT ![p] = "idle"]
    /\ local' = [local EXCEPT ![p] = NoLocal]
    /\ response' = r

\* The handler suspends at an await.
Await(p, label, l) ==
    /\ pc' = [pc EXCEPT ![p] = label]
    /\ local' = [local EXCEPT ![p] = l]
    /\ UNCHANGED response

InitProcs ==
    /\ pc = [p \in Procs |-> "idle"]
    /\ local = [p \in Procs |-> NoLocal]
    /\ response = NoResponse
    /\ outbound = <<>>
    /\ InitClient

InitDb ==
    /\ farmers = <<>> /\ ivr_calls = <<>> /\ carbon_credits = <<>>
    /\ api_credentials = <<>>
    /\ nextId = [t \in {"farmers", "ivr_calls", "carbon_credits"} |-> 1]

InitCalc ==
    calc = [practices |-> <<>>, acreage |-> 0, cropType |-> "corn",
            serviceDone |-> FALSE, service |-> Num(0),
            edgeDone |-> FALSE, edge |-> Num(0)]

(***************************************************************************)
(* Table api_credentials and its two handlers.                             *)
(***************************************************************************)

\* The credentials blobs of the model: per vendor section whether it is
\* present, enabled and complete.
Section(present, enabled, complete) ==
    [present |-> present, enabled |-> enabled, complete |-> complete]
NoSection == Section(FALSE, FALSE, FALSE)
Sections == {NoSection, Section(TRUE, FALSE, TRUE), Section(TRUE, TRUE, FALSE),
             Section(TRUE, TRUE, TRUE)}

CredentialBlobs ==
    {[twilioWhatsapp |-> Section(TRUE, TRUE, TRUE), whatsapp |-> NoSection,
      elevenLabs |-> Section(TRUE, TRUE, TRUE), verifyToken |-> "absent"],
     [twilioWhatsapp |-> NoSection, whatsapp |-> Section(TRUE, TRUE, TRUE),
      elevenLabs |-> NoSection, verifyToken |-> "token"],
     [twilioWhatsapp |-> Section(TRUE, FALSE, TRUE), whatsapp |-> Section(TRUE, TRUE, FALSE),
      elevenLabs |-> Section(TRUE, TRUE, FALSE), verifyToken |-> ""]}

\* .maybeSingle() and .single(): the row when exactly one row matches, else
\* data is null (with an error, except maybeSingle on no row).
Null == [null |-> TRUE]
Single(rows) == IF Len(rows) = 1 THEN rows[1] ELSE Null

\* credData?.credentials?.<section>: the section of the stored blob, undefined
\* when there is no row or no such section.
StoredSection(name) ==
    LET credData == Single(SelectSeq(api_credentials, LAMBDA row : row.id = "main"))
    IN  IF credData = Null THEN NoSection ELSE credData.credentials[name]

\* INSERT INTO api_credentials without the PRIMARY KEY
ApiCredentialsInsertNoKey(table, row) ==
    [error |-> FALSE, rows |-> Append(table, row)]

\* INSERT INTO api_credentials: id text PRIMARY KEY
ApiCredentialsInsert(table, row) ==
    IF \E i \in 1..Len(table) : table[i].id = row.id
    THEN [error |-> TRUE, rows |-> table]
    ELSE [error |-> FALSE, rows |-> Append(table, row)]

\* UPDATE api_credentials SET credentials = ... WHERE id = ...
ApiCredentialsUpdate(table, id, credentials) ==
    [error |-> FALSE,
     rows |-> [i \in 1..Len(table) |->
                 IF table[i].id = id
                 THEN [table[i] EXCEPT !.credentials = credentials]
                 ELSE table[i]]]

IsMain(row) == row.id = "main"

\* The bodies a save-api-credentials request can carry: no JSON, JSON without
\* credentials, JSON with a credentials blob.
SaveBodies == {[json |-> FALSE], [json |-> TRUE, credentials |-> Null]}
              \cup {[json |-> TRUE, credentials |-> b] : b \in CredentialBlobs}

\* save-api-credentials up to the first await on the database.
SaveCredentialsReceive(p) ==
    /\ pc[p] = "idle"
    /\ \E method \in Methods, body \in SaveBodies :
         IF method = "OPTIONS"
         THEN Return(p, Preflight("save-api-credentials"))
         ELSE IF ~body.json
         THEN \* req.json() throws: caught
              Return(p, JsonSuccessMessage("save-api-credentials", 500, "false", TRUE))
         ELSE IF body.credentials = Null
         THEN Return(p, JsonSuccessMessage("save-api-credentials", 200, "false", FALSE))
         ELSE Await(p, "save_select",
                    [handler |-> "save-api-credentials", credentials |-> body.credentials])
    /\ UNCHANGED <<calc, clientVars, dbVars>> /\ outbound' = <<>>

\* const { data: existingData } = await ...select('*').eq('id', 'main').maybeSingle()
SaveCredentialsSelect(p) ==
    /\ pc[p] = "save_select"
    /\ Await(p, "save_write",
             [local[p] EXCEPT !.handler = "save-api-credentials"]
               @@ [existingData |-> Single(SelectSeq(api_credentials, IsMain))])
    /\ UNCHANGED <<calc, clientVars, dbVars>> /\ outbound' = <<>>

\* if (existingData) update else insert; then the response.
SaveCredentialsWrite(p) ==
    /\ pc[p] = "save_write"
    /\ LET result == IF local[p].existingData # Null
                     THEN ApiCredentialsUpdate(api_credentials, "main", local[p].credentials)
                     ELSE ApiCredentialsInsert(api_credentials,
                              [id |-> "main", credentials |-> local[p].credentials])
       IN  /\ api_credentials' = result.rows
           /\ Return(p, JsonSuccessMessage("save-api-credentials", 200,
                                           IF result.error THEN "false" ELSE "true", FALSE))
    /\ UNCHANGED <<calc, clientVars, farmers, ivr_calls, carbon_credits, nextId>> /\ outbound' = <<>>

\* get-api-credentials: every method but OPTIONS reads the row.
GetCredentials(p) ==
    /\ pc[p] = "idle"
    /\ \E method \in Methods :
         IF method = "OPTIONS"
         THEN Return(p, Preflight("get-api-credentials"))
         ELSE IF Len(SelectSeq(api_credentials, IsMain)) > 1
         THEN \* maybeSingle reports an error
              Return(p, JsonSuccessError("get-api-credentials", 200, "false", FALSE))
         ELSE Return(p, Resp("get-api-credentials", 200, TRUE, "json", "true",
                             FALSE, FALSE, FALSE))
    /\ UNCHANGED <<calc, clientVars, dbVars>> /\ outbound' = <<>>

InitCreds == InitCalc /\ InitDb /\ InitProcs
NextCreds ==
    \E p \in Procs :
        \/ SaveCredentialsReceive(p)
        \/ SaveCredentialsSelect(p)
        \/ SaveCredentialsWrite(p)
        \/ GetCredentials(p)
SpecCreds == InitCreds /\ [][NextCreds]_vars

(***************************************************************************)
(* C2: after any interleaving of save-api-credentials requests the table   *)
(* api_credentials holds at most one row and its id is 'main'; a save that *)
(* finds the row replaces its credentials instead of adding a row.         *)
(***************************************************************************)
C2_SingleMainRow ==
    /\ [](/\ Len(api_credentials) <= 1
          /\ \A i \in 1..Len(api_credentials) : api_credentials[i].id = "main")
    /\ [][\A p \in Procs :
            (pc[p] = "save_write" /\ pc'[p] = "idle" /\ local[p].existingData # Null)
            => api_credentials' = <<[id |-> "main", credentials |-> local[p].credentials]>>]_vars

\* Two first-time saves ran concurrently: both found no row, one has inserted
\* and the other is about to insert.
C2_Witness ==
    \E p \in Procs :
        /\ pc[p] = "save_write" /\ local[p].existingData = Null
        /\ Len(api_credentials) = 1
        /\ response.handler = "save-api-credentials" /\ response.success = "true"

(***************************************************************************)
(* Tables farmers, ivr_calls and carbon_credits.                           *)
(***************************************************************************)
MaxFarmerIds == 2
MaxCalls == 1
MaxCredits == 2

\* A phone number is a string, held as its sequence of characters; the prefix
\* "whatsapp:" of a Twilio WhatsApp address is one symbol.
PhoneNumbers == {<<"+", "1">>, <<"1">>}

RECURSIVE ReplaceFirst(_, _)
\* s.replace(pattern, ''): the first occurrence of the pattern is removed.
ReplaceFirst(s, pattern) ==
    IF s = <<>> THEN <<>>
    ELSE IF Head(s) = pattern THEN Tail(s)
    ELSE <<Head(s)>> \o ReplaceFirst(Tail(s), pattern)

\* The ids gen_random_uuid() hands out, and 0 for NULL.
FarmerIds == 1..MaxFarmerIds
NullId == 0

Ids(table) == {table[i].id : i \in 1..Len(table)}

FarmerRow(id, phone) == [id |-> id, phone_number |-> phone]

\* INSERT INTO farmers without the UNIQUE constraint
FarmersInsertNoUnique(table, row) ==
    [error |-> FALSE, rows |-> Append(table, row)]

\* INSERT INTO farmers: phone_number text UNIQUE NOT NULL
FarmersInsert(table, row) ==
    IF \E i \in 1..Len(table) : table[i].phone_number = row.phone_number
    THEN [error |-> TRUE, rows |-> table]
    ELSE [error |-> FALSE, rows |-> Append(table, row)]

\* UPDATE farmers SET phone_number = ... WHERE id = ...: UNIQUE again
FarmersUpdatePhone(table, id, phone) ==
    IF \E i \in 1..Len(table) : table[i].id # id /\ table[i].phone_number = phone
    THEN [error |-> TRUE, rows |-> table]
    ELSE [error |-> FALSE,
          rows |-> [i \in 1..Len(table) |->
                      IF table[i].id = id
                      THEN [table[i] EXCEPT !.phone_number = phone]
                      ELSE table[i]]]

\* farmer_id uuid REFERENCES farmers(id): NULL or the id of a farmers row
ForeignKeyOk(farmer_id) == farmer_id = NullId \/ farmer_id \in Ids(farmers)

\* ON DELETE CASCADE: the rows of a table that survive the deletion of a farmer
WithoutFarmer(table, id) == SelectSeq(table, LAMBDA row : row.farmer_id # id)

\* A column left out of an insert is NULL.
NullCondition == 0 - 1

\* The columns of ivr_calls that the model keeps.
CallRow(id, farmer_id, call_status, call_type, crop_condition, transcript) ==
    [id |-> id, farmer_id |-> farmer_id, call_status |-> call_status,
     call_type |-> call_type, crop_condition |-> crop_condition,
     opted_in_carbon |-> FALSE, transcript |-> transcript]

CallTypes == {"traditional_ivr", "elevenlabs_voice", "whatsapp", "whatsapp_sent",
              "whatsapp_delivered", "whatsapp_read"}

\* INSERT INTO ivr_calls: the foreign key, CHECK (crop_condition BETWEEN 1 AND 3)
\* and CHECK (call_type IN (...)); a NULL crop_condition passes its check.
IvrCallsInsert(table, row) ==
    IF /\ ForeignKeyOk(row.farmer_id)
       /\ (row.crop_condition = NullCondition \/ row.crop_condition \in 1..3)
       /\ row.call_type \in CallTypes
    THEN [error |-> FALSE, rows |-> Append(table, row)]
    ELSE [error |-> TRUE, rows |-> table]

\* An insert that stores the row as already verified.
CreditRowVerified(id, farmer_id, practices_reported) ==
    [id |-> id, farmer_id |-> farmer_id, verification_status |-> "verified",
     practices_reported |-> practices_reported]

\* The columns of carbon_credits that the model keeps; every insert of the
\* application writes verification_status: 'pending'.
CreditRow(id, farmer_id, practices_reported) ==
    [id |-> id, farmer_id |-> farmer_id, verification_status |-> "pending",
     practices_reported |-> practices_reported]

\* INSERT INTO carbon_credits: the foreign key is its only constraint on
\* farmer_id (an index, no UNIQUE).
CarbonCreditsInsert(table, row) ==
    IF ForeignKeyOk(row.farmer_id)
       /\ row.verification_status \in {"pending", "verified", "rejected"}
    THEN [error |-> FALSE, rows |-> Append(table, row)]
    ELSE [error |-> TRUE, rows |-> table]

\* The id the next inserted row of a table gets.
NewId(table) == nextId[table]
Issue(table) == [nextId EXCEPT ![table] = @ + 1]

(***************************************************************************)
(* The dashboard's farmer form (FarmersTable).                             *)
(***************************************************************************)

\* handleAddFarmer: insert the form's phone number (a non-empty one).
HandleAddFarmer ==
    /\ nextId["farmers"] <= MaxFarmerIds
    /\ \E phone \in PhoneNumbers :
         LET result == FarmersInsert(farmers, FarmerRow(NewId("farmers"), phone))
         IN  /\ farmers' = result.rows
             /\ nextId' = IF result.error THEN nextId ELSE Issue("farmers")
    /\ UNCHANGED <<calc, clientVars, ivr_calls, carbon_credits, api_credentials, procVars>>

\* handleUpdateFarmer: the edited farmer gets the form's phone number.
HandleUpdateFarmer ==
    /\ \E id \in Ids(farmers), phone \in PhoneNumbers :
         farmers' = FarmersUpdatePhone(farmers, id, phone).rows
    /\ UNCHANGED <<calc, clientVars, ivr_calls, carbon_credits, api_credentials, nextId, procVars>>

\* handleDeleteFarmer: the farmer goes, and by cascade its calls and credits.
HandleDeleteFarmer ==
    /\ \E id \in Ids(farmers) :
         /\ farmers' = SelectSeq(farmers, LAMBDA row : row.id # id)
         /\ ivr_calls' = WithoutFarmer(ivr_calls, id)
         /\ carbon_credits' = WithoutFarmer(carbon_credits, id)
    /\ UNCHANGED <<calc, clientVars, api_credentials, nextId, procVars>>

(***************************************************************************)
(* Outbound calls and the runtime's answer when a handler returns nothing. *)
(***************************************************************************)

\* A fetch resolves with an OK response, resolves with a non-OK response, or
\* rejects.
FetchOutcomes == {"ok", "not_ok", "rejects"}

\* One outbound call of an operation: who calls, the request, how it ended.
Call(op, to, outcome) == [op |-> op, to |-> to, outcome |-> outcome]

\* An atomic handler answers without suspending.
Respond(r) == response' = r /\ UNCHANGED <<pc, local>>

\* A handler that falls off its try block returns undefined: the runtime
\* answers for it, without corsHeaders (a bare 500, or no response at all).
RuntimeAnswers(handler) ==
    {Resp(handler, 500, FALSE, "text", "absent", FALSE, FALSE, FALSE),
     Resp(handler, 0, FALSE, "none", "absent", FALSE, FALSE, FALSE)}

\* catch (error) of the WhatsApp webhooks: { error, success: false }, 500
CaughtErrorSuccess(handler) == Resp(handler, 500, TRUE, "json", "false", FALSE, TRUE, TRUE)

\* catch (error) of carbon-credit-integration and twilio-ivr-webhook: { error }, 500
CaughtErrorOnly(handler) == Resp(handler, 500, TRUE, "json", "absent", FALSE, TRUE, TRUE)

\* new Response('OK' | challenge | 'Forbidden' | twiml, { headers: corsHeaders, status })
Plain(handler, status, body, caught) ==
    Resp(handler, status, TRUE, body, "absent", FALSE, FALSE, caught)

\* { error: 'Invalid request' }, 400
InvalidRequest(handler) == Resp(handler, 400, TRUE, "json", "absent", FALSE, TRUE, FALSE)

\* .from('farmers').select('*').eq('phone_number', phone).single()
FarmerByPhone(phone) ==
    Single(SelectSeq(farmers, LAMBDA row : row.phone_number = phone))

\* farmer?.id
IdOf(farmer) == IF farmer = Null THEN NullId ELSE farmer.id

\* The insert of a log row by a handler that does not look at its error.
LogCall(row) ==
    LET result == IvrCallsInsert(ivr_calls, row)
    IN  /\ result.error \/ nextId["ivr_calls"] <= MaxCalls
        /\ ivr_calls' = result.rows
        /\ nextId' = IF result.error THEN nextId ELSE Issue("ivr_calls")

\* The insert of a carbon_credits row by a handler that does not look at its
\* error.
Enroll(row) ==
    LET result == CarbonCreditsInsert(carbon_credits, row)
    IN  /\ result.error \/ nextId["carbon_credits"] <= MaxCredits
        /\ carbon_credits' = result.rows
        /\ nextId' = IF result.error THEN nextId ELSE Issue("carbon_credits")

(***************************************************************************)
(* whatsapp-webhook and meta-whatsapp-webhook (the same code but for the   *)
(* body parsing, the reply and the logged status).                         *)
(***************************************************************************)
MetaHandlers == {"whatsapp-webhook", "meta-whatsapp-webhook"}

VerifyTokens == {"absent", "", "token"}

\* Requests without a database write: a preflight, a method the handler has
\* no branch for, the verification GET, a body that does not parse, a body
\* with neither action nor object, a webhook body without entry.
WhatsappPlainRequests ==
    {[method |-> "OPTIONS"], [method |-> "PUT"]}
    \cup {[method |-> "GET", mode |-> m, token |-> t] :
            m \in {"subscribe", "unsubscribe"}, t \in VerifyTokens}
    \cup {[method |-> "POST", kind |-> k] : k \in {"unparsable", "no_entry", "other"}}

SendMessageRequests ==
    {[farmerId |-> f, phoneNumber |-> n] : f \in FarmerIds, n \in {TRUE, FALSE}}

\* OPTIONS, GET (mode === 'subscribe' && token === verifyToken; an absent
\* parameter is null, an absent stored token undefined), and the requests
\* that throw or fall through.
WhatsappPlain(h, req) ==
    /\ LET credData == Single(SelectSeq(api_credentials, IsMain))
           verifyToken == IF credData = Null THEN "absent"
                          ELSE credData.credentials.verifyToken
       IN  CASE req.method = "OPTIONS" -> Respond(Preflight(h))
             [] req.method = "PUT" -> \E r \in RuntimeAnswers(h) : Respond(r)
             [] req.method = "GET" ->
                  IF /\ req.mode = "subscribe"
                     /\ req.token # "absent" /\ verifyToken # "absent"
                     /\ req.token = verifyToken
                  THEN Respond(Plain(h, 200, "text", FALSE))
                  ELSE Respond(Plain(h, 403, "text", FALSE))
             [] req.method = "POST" /\ req.kind \in {"unparsable", "no_entry"} ->
                  Respond(CaughtErrorSuccess(h))
             [] req.method = "POST" /\ req.kind = "other" ->
                  \E r \in RuntimeAnswers(h) : Respond(r)
    /\ UNCHANGED <<calc, clientVars, dbVars>> /\ outbound' = <<>>

\* The row send_message logs.
SentRow(h, farmerId) ==
    CASE h = "whatsapp-webhook" ->
           CallRow(NewId("ivr_calls"), farmerId, "whatsapp_sent", "traditional_ivr",
                   NullCondition, "message")
      [] h = "meta-whatsapp-webhook" ->
           CallRow(NewId("ivr_calls"), farmerId, "meta_whatsapp_sent", "whatsapp",
                   NullCondition, "message")
      [] h = "twilio-whatsapp-webhook" ->
           CallRow(NewId("ivr_calls"), farmerId, "twilio_whatsapp_sent", "whatsapp",
                   NullCondition, "message")

\* The vendor send_message calls, and the credentials section it reads.
VendorOf(h) == IF h = "twilio-whatsapp-webhook" THEN "api.twilio.com" ELSE "graph.facebook.com"
SectionOf(h) == IF h = "twilio-whatsapp-webhook" THEN "twilioWhatsapp" ELSE "whatsapp"

\* A send_message that logs the message whatever the vendor answered.
LogsSentMessageAlways(outcome) == TRUE

\* send_message logs the message once the vendor call returned OK.
LogsSentMessage(outcome) == outcome = "ok"

\* send_message of the three WhatsApp handlers: the credentials, the vendor
\* call, the log row, the response.
SendMessage(h, req) ==
    LET creds == StoredSection(SectionOf(h))
    IN  IF ~creds.enabled \/ ~creds.complete \/ ~req.phoneNumber
        THEN \* not configured, or phoneNumber.replace of undefined
             /\ Respond(CaughtErrorSuccess(h))
             /\ UNCHANGED <<ivr_calls, nextId>> /\ outbound' = <<>>
        ELSE \E outcome \in FetchOutcomes :
               /\ outbound' = <<Call(h, VendorOf(h), outcome)>>
               /\ IF LogsSentMessage(outcome)
                  THEN LogCall(SentRow(h, req.farmerId))
                  ELSE UNCHANGED <<ivr_calls, nextId>>
               /\ IF outcome = "ok"
                  THEN Respond(JsonSuccessMessage(h, 200, "true", FALSE))
                  ELSE Respond(CaughtErrorSuccess(h))

WhatsappSendMessage(h, req) ==
    /\ SendMessage(h, req)
    /\ UNCHANGED <<calc, clientVars, farmers, carbon_credits, api_credentials>>

\* The webhook body of an inbound message, up to the lookup of the sender:
\* handleIncomingMessage finds the farmer by message.from.
WhatsappInbound(p, h, from) ==
    /\ pc[p] = "idle"
    /\ Await(p, "wa_register",
             [handler |-> h, phoneNumber |-> from, farmer_id |-> IdOf(FarmerByPhone(from))])
    /\ UNCHANGED <<calc, clientVars, dbVars>> /\ outbound' = <<>>

\* handleIncomingMessage after the lookup: register the unknown sender, reply
\* (the Meta handler calls the Graph API with the stored credentials), log
\* the interaction with farmer?.id; an exception is caught and logged to the
\* console, and the webhook answers 'OK' either way.
WhatsappRegisterAndLog(p) ==
    /\ pc[p] = "wa_register"
    /\ LET h == local[p].handler
           farmer_id == local[p].farmer_id
           registered == IF farmer_id = NullId
                         THEN FarmersInsert(farmers,
                                  FarmerRow(NewId("farmers"), local[p].phoneNumber))
                         ELSE [error |-> TRUE, rows |-> farmers]
           afterFarmers == IF registered.error THEN nextId
                           ELSE [nextId EXCEPT !["farmers"] = @ + 1]
           row == CallRow(nextId["ivr_calls"], farmer_id,
                          IF h = "whatsapp-webhook" THEN "whatsapp_received"
                          ELSE "meta_whatsapp_received",
                          IF h = "whatsapp-webhook" THEN "traditional_ivr" ELSE "whatsapp",
                          NullCondition, "received")
           \* the foreign key is checked against the table after the registration
           logged == IF farmer_id = NullId \/ farmer_id \in Ids(registered.rows)
                     THEN [error |-> FALSE, rows |-> Append(ivr_calls, row)]
                     ELSE [error |-> TRUE, rows |-> ivr_calls]
           afterLog == IF logged.error THEN afterFarmers
                       ELSE [afterFarmers EXCEPT !["ivr_calls"] = @ + 1]
           Logs == /\ logged.error \/ nextId["ivr_calls"] <= MaxCalls
                   /\ ivr_calls' = logged.rows /\ nextId' = afterLog
       IN  /\ registered.error \/ nextId["farmers"] <= MaxFarmerIds
           /\ farmers' = registered.rows
           /\ IF h = "whatsapp-webhook"
              THEN /\ Logs
                   /\ outbound' = <<>>
                   /\ Return(p, Plain(h, 200, "text", FALSE))
              ELSE IF ~StoredSection("whatsapp").present
              THEN \* whatsappCreds.phoneNumberId of undefined throws
                   /\ UNCHANGED ivr_calls /\ outbound' = <<>> /\ nextId' = afterFarmers
                   /\ Return(p, Plain(h, 200, "text", TRUE))
              ELSE \E outcome \in FetchOutcomes :
                     /\ outbound' = <<Call(h, "graph.facebook.com", outcome)>>
                     /\ IF outcome = "rejects"
                        THEN /\ UNCHANGED ivr_calls /\ nextId' = afterFarmers
                             /\ Return(p, Plain(h, 200, "text", TRUE))
                        ELSE /\ Logs
                             /\ Return(p, Plain(h, 200, "text", FALSE))
    /\ UNCHANGED <<calc, clientVars, carbon_credits, api_credentials>>

(***************************************************************************)
(* twilio-whatsapp-webhook                                                 *)
(***************************************************************************)
TwilioWhatsapp == "twilio-whatsapp-webhook"

\* Twilio names the sender of a WhatsApp message "whatsapp:<number>".
WhatsappAddress(number) == <<"whatsapp:">> \o number

TwilioWhatsappPlainRequests ==
    {[method |-> m] : m \in {"OPTIONS", "GET", "PUT"}}
    \cup {[method |-> "POST", kind |-> k] : k \in {"unparsable", "other"}}

TwilioWhatsappPlain(req) ==
    /\ CASE req.method = "OPTIONS" -> Respond(Preflight(TwilioWhatsapp))
         [] req.method \in {"GET", "PUT"} -> Respond(InvalidRequest(TwilioWhatsapp))
         [] req.method = "POST" /\ req.kind = "unparsable" ->
              Respond(CaughtErrorSuccess(TwilioWhatsapp))
         [] req.method = "POST" /\ req.kind = "other" ->
              Respond(InvalidRequest(TwilioWhatsapp))
    /\ UNCHANGED <<calc, clientVars, dbVars>> /\ outbound' = <<>>

TwilioWhatsappSendMessage(req) ==
    /\ SendMessage(TwilioWhatsapp, req)
    /\ UNCHANGED <<calc, clientVars, farmers, carbon_credits, api_credentials>>

\* The incoming webhook (body.MessageSid): the farmer by the stripped From,
\* and for a known farmer the log row of handleIncomingMessage.
TwilioWhatsappInbound(From) ==
    /\ LET fromNumber == ReplaceFirst(From, "whatsapp:")
           farmer == FarmerByPhone(fromNumber)
       IN  IF farmer = Null
           THEN UNCHANGED <<ivr_calls, nextId>>
           ELSE LogCall(CallRow(NewId("ivr_calls"), farmer.id, "twilio_whatsapp_received",
                                "whatsapp", NullCondition, "received"))
    /\ Respond(Plain(TwilioWhatsapp, 200, "text", FALSE))
    /\ UNCHANGED <<calc, clientVars, farmers, carbon_credits, api_credentials>> /\ outbound' = <<>>

(***************************************************************************)
(* twilio-ivr-webhook                                                      *)
(***************************************************************************)
TwilioIvr == "twilio-ivr-webhook"

\* Digits as pressed, and parseInt(digits || "0")
DigitsValues == {"absent", "1", "5"}
ParseInt(digits) == CASE digits = "1" -> 1 [] digits = "5" -> 5 [] OTHER -> 0

Steps == {"menu", "crop_condition", "carbon_optin"}

TwilioIvrPlainRequests ==
    {[method |-> m] : m \in {"OPTIONS", "PUT"}}
    \cup {[method |-> "GET", farmer_id |-> f] : f \in FarmerIds \cup {NullId}}
    \cup {[method |-> "POST", form |-> FALSE]}

TwilioIvrCalls ==
    {[From |-> n, Digits |-> d, step |-> s, farmer_id |-> f] :
        n \in PhoneNumbers, d \in DigitsValues, s \in Steps, f \in FarmerIds \cup {NullId}}

\* { message, farmer, status } of the GET
JsonPlain(handler, status) == Resp(handler, status, TRUE, "json", "absent", TRUE, FALSE, FALSE)

\* OPTIONS, a method without a branch, the GET (farmer by id), a POST whose
\* body is no form.
TwilioIvrPlain(req) ==
    /\ CASE req.method = "OPTIONS" -> Respond(Preflight(TwilioIvr))
         [] req.method = "PUT" -> \E r \in RuntimeAnswers(TwilioIvr) : Respond(r)
         [] req.method = "GET" ->
              IF req.farmer_id # NullId /\ req.farmer_id \in Ids(farmers)
              THEN Respond(JsonPlain(TwilioIvr, 200))
              ELSE Respond(CaughtErrorOnly(TwilioIvr))
         [] req.method = "POST" -> Respond(CaughtErrorOnly(TwilioIvr))
    /\ UNCHANGED <<calc, clientVars, dbVars>> /\ outbound' = <<>>

\* formData.get("From")?.toString().replace("+", "")
IvrPhoneNumber(From) == ReplaceFirst(From, "+")

\* The TwiML for a registered farmer: the crop_condition step with a
\* farmer_id replaces the menu's answer with the thanks for the reported
\* condition.
Twiml(req) ==
    IF req.step = "crop_condition" /\ req.farmer_id # NullId THEN "twiml_thanks" ELSE "twiml"

\* POST: the farmer by the stripped From; for a known farmer the step's
\* insert (its error is not looked at), then the TwiML.
TwilioIvrPost(req) ==
    /\ LET farmer == FarmerByPhone(IvrPhoneNumber(req.From))
       IN  IF farmer = Null
           THEN /\ UNCHANGED <<ivr_calls, carbon_credits, nextId>>
                /\ Respond(Plain(TwilioIvr, 200, "twiml_not_registered", FALSE))
           ELSE /\ Respond(Plain(TwilioIvr, 200, Twiml(req), FALSE))
                /\ IF req.step = "crop_condition" /\ req.farmer_id # NullId
                   THEN /\ LogCall(CallRow(NewId("ivr_calls"), req.farmer_id, "completed",
                                           "traditional_ivr", ParseInt(req.Digits),
                                           "condition"))
                        /\ UNCHANGED carbon_credits
                   ELSE IF /\ req.step = "carbon_optin" /\ req.farmer_id # NullId
                           /\ req.Digits = "1"
                   THEN /\ Enroll(CreditRow(NewId("carbon_credits"), req.farmer_id,
                                            "IVR Opt-in"))
                        /\ UNCHANGED ivr_calls
                   ELSE UNCHANGED <<ivr_calls, carbon_credits, nextId>>
    /\ UNCHANGED <<calc, clientVars, farmers, api_credentials>> /\ outbound' = <<>>

(***************************************************************************)
(* elevenlabs-voice-handler                                                *)
(***************************************************************************)
ElevenLabs == "elevenlabs-voice-handler"

ElevenLabsPlainRequests ==
    {[method |-> m] : m \in {"OPTIONS", "GET", "PUT"}}
    \cup {[method |-> "POST", kind |-> k] : k \in {"unparsable", "other", "missing_parameters"}}

\* OPTIONS; a method or body without a branch: { error: 'Invalid request' },
\* 400; a body that does not parse: the outer catch; initiate_call without
\* farmerId, phoneNumber or farmerName: { success: false, error }, 400.
ElevenLabsPlain(req) ==
    /\ CASE req.method = "OPTIONS" -> Respond(Preflight(ElevenLabs))
         [] req.method \in {"GET", "PUT"} -> Respond(InvalidRequest(ElevenLabs))
         [] req.method = "POST" /\ req.kind = "unparsable" ->
              Respond(JsonSuccessError(ElevenLabs, 500, "false", TRUE))
         [] req.method = "POST" /\ req.kind = "other" -> Respond(InvalidRequest(ElevenLabs))
         [] req.method = "POST" /\ req.kind = "missing_parameters" ->
              Respond(JsonSuccessError(ElevenLabs, 400, "false", FALSE))
    /\ UNCHANGED <<calc, clientVars, dbVars>> /\ outbound' = <<>>

\* { success: true, callId, ... }
JsonSuccess(handler, status, caught) ==
    Resp(handler, status, TRUE, "json", "true", FALSE, FALSE, caught)

\* initiateConversation and the catch around it: what the handler answers,
\* whether it called ElevenLabs and whether it logs the call.
InitiateCall(farmerId, outcome) ==
    IF ~StoredSection("elevenLabs").complete
    THEN \* 'ElevenLabs credentials not configured': mock success for the demo
         [response |-> JsonSuccess(ElevenLabs, 200, TRUE), called |-> FALSE, logs |-> FALSE]
    ELSE IF farmerId \notin Ids(farmers)
    THEN [response |-> JsonSuccessError(ElevenLabs, 500, "false", TRUE),
          called |-> FALSE, logs |-> FALSE]
    ELSE IF outcome # "ok"
    THEN [response |-> JsonSuccessError(ElevenLabs, 500, "false", TRUE),
          called |-> TRUE, logs |-> FALSE]
    ELSE [response |-> JsonSuccess(ElevenLabs, 200, FALSE), called |-> TRUE, logs |-> TRUE]

InitiatedRow(farmerId) ==
    CallRow(NewId("ivr_calls"), farmerId, "elevenlabs_initiated", "elevenlabs_voice",
            NullCondition, "initiated")

\* POST { action: 'initiate_call', farmerId, phoneNumber, farmerName }
ElevenLabsInitiateCall(farmerId) ==
    /\ \E outcome \in FetchOutcomes :
         LET r == InitiateCall(farmerId, outcome)
         IN  /\ Respond(r.response)
             /\ IF r.called
                THEN outbound' = <<Call(ElevenLabs, "api.elevenlabs.io", outcome)>>
                ELSE outcome = "ok" /\ outbound' = <<>>
             /\ IF r.logs THEN LogCall(InitiatedRow(farmerId))
                ELSE UNCHANGED <<ivr_calls, nextId>>
    /\ UNCHANGED <<calc, clientVars, farmers, carbon_credits, api_credentials>>

WebhookEvents ==
    {[farmerId |-> f, status |-> st, analysis |-> a] :
        f \in FarmerIds, st \in {"completed", "failed"},
        a \in {"absent", "no_opt_in", "opt_in"}}

\* The rows .eq('farmer_id', farmerId).eq('call_type', 'elevenlabs_voice') selects
VoiceCalls(farmerId) ==
    {i \in 1..Len(ivr_calls) :
        ivr_calls[i].farmer_id = farmerId /\ ivr_calls[i].call_type = "elevenlabs_voice"}

\* .order('created_at', { ascending: false }).limit(1) on an update: the
\* latest of the rows, or all of them where the limit does not apply to
\* updates.
Limited(rows) ==
    IF rows = {} THEN {{}}
    ELSE {{CHOOSE i \in rows : \A j \in rows : j <= i}, rows}

\* handleWebhook's update sets updated_at, a column ivr_calls does not have:
\* the query is rejected and its error is not looked at.
UpdateCallStatus(table, targets, status) == [error |-> TRUE, rows |-> table]

\* processVoiceCarbonOptIn's update: opted_in_carbon and transcript
UpdateCallOptIn(table, targets) ==
    [error |-> FALSE,
     rows |-> [i \in 1..Len(table) |->
                 IF i \in targets
                 THEN [table[i] EXCEPT !.opted_in_carbon = TRUE,
                                       !.transcript = "voice enrollment completed"]
                 ELSE table[i]]]

\* POST with a conversation_id: handleWebhook, processVoiceAnalysis (its
\* update of the farmer's crop details is outside the model's columns) and
\* processVoiceCarbonOptIn.
ElevenLabsWebhook(event) ==
    /\ \E targets \in Limited(VoiceCalls(event.farmerId)) :
         LET afterStatus == UpdateCallStatus(ivr_calls, targets, event.status).rows
         IN  IF event.status = "completed" /\ event.analysis = "opt_in"
             THEN /\ Enroll(CreditRow(NewId("carbon_credits"), event.farmerId, "voice"))
                  /\ ivr_calls' = UpdateCallOptIn(afterStatus, targets).rows
             ELSE /\ ivr_calls' = afterStatus
                  /\ UNCHANGED <<carbon_credits, nextId>>
    /\ Respond(JsonSuccess(ElevenLabs, 200, FALSE))
    /\ UNCHANGED <<calc, clientVars, farmers, api_credentials>> /\ outbound' = <<>>

\* What a POST with a conversation_id may carry as its ElevenLabs signature
\* header.
Signatures == {"absent", "invalid", "valid"}

WebhookRequests == {[body |-> e, signature |-> g] : e \in WebhookEvents, g \in Signatures}

\* The webhook branch as Deno.serve runs it: req.json(), body.conversation_id,
\* handleWebhook(body); no header of the request is read.
ElevenLabsWebhookRequest(req) == ElevenLabsWebhook(req.body)

(***************************************************************************)
(* carbon-credit-integration                                               *)
(***************************************************************************)
CarbonCredit == "carbon-credit-integration"

CarbonCreditPlainRequests ==
    {[method |-> m] : m \in {"OPTIONS", "PUT"}}
    \cup {[method |-> "GET", farmer_id |-> f] : f \in {NullId} \cup FarmerIds}
    \cup {[method |-> "POST", kind |-> k] : k \in {"unparsable", "no_practices"}}

\* The GET branch: url.searchParams.get("farmer_id") absent throws; with a
\* farmer_id the row is read with .single() (no row or several rows are
\* PGRST116, which is let through) and the body is built from
\* Object.keys(creditRates), a constant of the POST block that is not in scope
\* here, so building the body throws; the catch answers { error }, 500.
CarbonCreditGet(req) == CaughtErrorOnly(CarbonCredit)

\* OPTIONS; a method without a branch; the GET; a POST that does not parse or
\* has no practices to iterate.
CarbonCreditPlain(req) ==
    /\ CASE req.method = "OPTIONS" -> Respond(Preflight(CarbonCredit))
         [] req.method = "PUT" -> \E r \in RuntimeAnswers(CarbonCredit) : Respond(r)
         [] req.method = "GET" -> Respond(CarbonCreditGet(req))
         [] req.method = "POST" -> Respond(CaughtErrorOnly(CarbonCredit))
    /\ UNCHANGED <<calc, clientVars, dbVars>> /\ outbound' = <<>>

\* .from("carbon_credits").select("*").eq("farmer_id", farmerId).single()
CreditOf(farmerId) ==
    Single(SelectSeq(carbon_credits, LAMBDA row : row.farmer_id = farmerId))

\* POST up to the lookup of the farmer's record.
CarbonCreditSelect(p, farmerId) ==
    /\ pc[p] = "idle"
    /\ Await(p, "cc_write",
             [handler |-> CarbonCredit, farmerId |-> farmerId,
              existingCredit |-> CreditOf(farmerId) # Null])
    /\ UNCHANGED <<calc, clientVars, dbVars>> /\ outbound' = <<>>

\* UPDATE carbon_credits SET practices_reported = ... WHERE farmer_id = ...,
\* then .select().single(): an error unless exactly one row was updated.
CarbonCreditsUpdate(table, farmerId, practices) ==
    [error |-> Cardinality({i \in 1..Len(table) : table[i].farmer_id = farmerId}) # 1,
     rows |-> [i \in 1..Len(table) |->
                 IF table[i].farmer_id = farmerId
                 THEN [table[i] EXCEPT !.practices_reported = practices]
                 ELSE table[i]]]

\* POST after the lookup: update the record found or insert a new one;
\* result.error is thrown.
CarbonCreditWrite(p) ==
    /\ pc[p] = "cc_write"
    /\ LET farmerId == local[p].farmerId
           result == IF local[p].existingCredit
                     THEN CarbonCreditsUpdate(carbon_credits, farmerId, "posted")
                     ELSE CarbonCreditsInsert(carbon_credits,
                              CreditRow(NewId("carbon_credits"), farmerId, "posted"))
           inserted == ~local[p].existingCredit /\ ~result.error
       IN  /\ ~inserted \/ nextId["carbon_credits"] <= MaxCredits
           /\ carbon_credits' = result.rows
           /\ nextId' = IF inserted THEN Issue("carbon_credits") ELSE nextId
           /\ IF result.error
              THEN Return(p, CaughtErrorOnly(CarbonCredit))
              ELSE Return(p, JsonPlain(CarbonCredit, 200))
    /\ UNCHANGED <<calc, clientVars, farmers, ivr_calls, api_credentials>> /\ outbound' = <<>>

(***************************************************************************)
(* The connection tests of the settings page: test-elevenlabs,             *)
(* test-sentinel-hub, test-twilio, test-whatsapp, test-africas-talking,    *)
(* test-africastalking, test-maps, test-carbon-credit.                     *)
(***************************************************************************)
TestHandlers ==
    {"test-elevenlabs", "test-sentinel-hub", "test-twilio-whatsapp", "test-whatsapp",
     "test-africas-talking", "test-africastalking", "test-maps", "test-carbon-credit"}

\* What a test does after its first vendor call: nothing more; a second call
\* whose answer must be OK; a second call whose OK answer must list the phone
\* number; a second call whose answer only adds detail; a second call inside
\* its own try/catch; a second call only when the first was not OK.
SecondCall(h) ==
    CASE h = "test-elevenlabs" -> "required"
      [] h = "test-twilio-whatsapp" -> "validates"
      [] h = "test-whatsapp" -> "optional"
      [] h = "test-africas-talking" -> "guarded"
      [] h = "test-carbon-credit" -> "fallback"
      [] OTHER -> "none"

\* A test-carbon-credit that asks /health again when /health was not OK.
EndpointsRepeated(h) ==
    CASE h = "test-elevenlabs" -> <<"api.elevenlabs.io/v1/user", "api.elevenlabs.io/v1/convai/agents">>
      [] h = "test-twilio-whatsapp" -> <<"api.twilio.com/Accounts", "api.twilio.com/IncomingPhoneNumbers">>
      [] h = "test-whatsapp" -> <<"graph.facebook.com/phoneNumberId", "graph.facebook.com/appId">>
      [] h = "test-africas-talking" ->
           <<"api.africastalking.com/version1/user", "api.africastalking.com/version1/user">>
      [] h = "test-carbon-credit" -> <<"baseUrl/health", "baseUrl/health">>
      [] h = "test-sentinel-hub" -> <<"services.sentinel-hub.com/oauth/token", "none">>
      [] h = "test-africastalking" -> <<"apiEndpoint", "none">>
      [] h = "test-maps" -> <<"maps provider", "none">>

\* The two vendor requests of a test.
Endpoints(h) ==
    CASE h = "test-elevenlabs" -> <<"api.elevenlabs.io/v1/user", "api.elevenlabs.io/v1/convai/agents">>
      [] h = "test-twilio-whatsapp" -> <<"api.twilio.com/Accounts", "api.twilio.com/IncomingPhoneNumbers">>
      [] h = "test-whatsapp" -> <<"graph.facebook.com/phoneNumberId", "graph.facebook.com/appId">>
      [] h = "test-africas-talking" ->
           <<"api.africastalking.com/version1/user", "api.africastalking.com/version1/user">>
      [] h = "test-carbon-credit" -> <<"baseUrl/health", "baseUrl/status">>
      [] h = "test-sentinel-hub" -> <<"services.sentinel-hub.com/oauth/token", "none">>
      [] h = "test-africastalking" -> <<"apiEndpoint", "none">>
      [] h = "test-maps" -> <<"maps provider", "none">>

\* catch (error): { success: false, message }, 500; test-carbon-credit
\* answers { success: true, message } for the demo; the helpers of test-maps
\* catch for themselves and their { success: false, message } is sent with 200.
TestCaught(h, inHelper) ==
    CASE h = "test-carbon-credit" -> JsonSuccessMessage(h, 200, "true", TRUE)
      [] h = "test-maps" /\ inHelper -> JsonSuccessMessage(h, 200, "false", TRUE)
      [] OTHER -> JsonSuccessMessage(h, 500, "false", TRUE)

TestFailed(h) == JsonSuccessMessage(h, 200, "false", FALSE)
TestPassed(h, caught) == JsonSuccessMessage(h, 200, "true", caught)

TestRequests ==
    {[method |-> m] : m \in {"OPTIONS", "GET"}}
    \cup {[method |-> "POST", body |-> b] : b \in {"unparsable", "missing", "complete"}}

\* The outcome of a test whose body is complete (every field the test reads),
\* given how its calls end and whether the second answer lists what the test
\* looks for: the response and the calls made.
TestResult(h, first, second, found) ==
    LET one == <<Call(h, Endpoints(h)[1], first)>>
        two == one \o <<Call(h, Endpoints(h)[2], second)>>
    IN  CASE first = "rejects" -> [response |-> TestCaught(h, TRUE), calls |-> one]
          [] first = "not_ok" /\ SecondCall(h) # "fallback" ->
               [response |-> TestFailed(h), calls |-> one]
          [] first = "not_ok" /\ SecondCall(h) = "fallback" ->
               [response |-> CASE second = "ok" -> TestPassed(h, FALSE)
                               [] second = "not_ok" -> TestFailed(h)
                               [] second = "rejects" -> TestCaught(h, TRUE),
                calls |-> two]
          [] first = "ok" /\ SecondCall(h) \in {"none", "fallback"} ->
               [response |-> TestPassed(h, FALSE), calls |-> one]
          [] first = "ok" /\ SecondCall(h) = "required" ->
               [response |-> CASE second = "ok" -> TestPassed(h, FALSE)
                               [] second = "not_ok" -> TestFailed(h)
                               [] second = "rejects" -> TestCaught(h, TRUE),
                calls |-> two]
          [] first = "ok" /\ SecondCall(h) = "optional" ->
               [response |-> IF second = "rejects" THEN TestCaught(h, TRUE)
                             ELSE TestPassed(h, FALSE),
                calls |-> two]
          [] first = "ok" /\ SecondCall(h) = "validates" ->
               [response |-> CASE second = "rejects" -> TestCaught(h, TRUE)
                               [] second = "ok" /\ ~found -> TestFailed(h)
                               [] OTHER -> TestPassed(h, FALSE),
                calls |-> two]
          [] first = "ok" /\ SecondCall(h) = "guarded" ->
               [response |-> TestPassed(h, second = "rejects"), calls |-> two]

ConnectionTest(h, req) ==
    /\ CASE req.method = "OPTIONS" -> Respond(Preflight(h)) /\ outbound' = <<>>
         [] req.method = "GET" -> Respond(TestCaught(h, FALSE)) /\ outbound' = <<>>
         [] req.method = "POST" /\ req.body = "unparsable" ->
              Respond(TestCaught(h, FALSE)) /\ outbound' = <<>>
         [] req.method = "POST" /\ req.body = "missing" ->
              Respond(TestFailed(h)) /\ outbound' = <<>>
         [] req.method = "POST" /\ req.body = "complete" ->
              \E first, second \in FetchOutcomes, found \in BOOLEAN :
                 LET r == TestResult(h, first, second, found)
                 IN  /\ Len(r.calls) = 1 => second = "ok"
                     /\ ~found => SecondCall(h) = "validates" /\ Len(r.calls) = 2
                                   /\ second = "ok"
                     /\ Respond(r.response)
                     /\ outbound' = r.calls
    /\ UNCHANGED <<calc, clientVars, dbVars>>

(***************************************************************************)
(* sentinel-hub-integration                                                *)
(***************************************************************************)
SentinelHub == "sentinel-hub-integration"

\* The layers a fetch-images request asks for.
Layers == <<"rgb", "ndvi">>

SentinelRequests ==
    {[method |-> m] : m \in {"OPTIONS", "GET", "PUT"}}
    \cup {[method |-> "POST", action |-> "unparsable"]}
    \cup {[method |-> "POST", action |-> a, credentials |-> c, parameters |-> q] :
            a \in {"test-connection", "fetch-images", "insights"}, c \in BOOLEAN, q \in BOOLEAN}

\* { error: "Method not allowed" }, 405
MethodNotAllowed(handler) == Resp(handler, 405, TRUE, "json", "absent", FALSE, TRUE, FALSE)

\* catch (error): { error: "Internal server error", message }, 500
InternalServerError(handler) == Resp(handler, 500, TRUE, "json", "absent", TRUE, TRUE, TRUE)

\* The insight object: no success field
Insight(handler, caught) == Resp(handler, 200, TRUE, "json", "absent", FALSE, FALSE, caught)

\* POST /api/v1/process with the layer's evalscript
ProcessRequest(layer) ==
    IF layer = "rgb" THEN "services.sentinel-hub.com/api/v1/process rgb"
    ELSE "services.sentinel-hub.com/api/v1/process ndvi"

RECURSIVE ProcessCalls(_, _)
\* fetchSatelliteImages: one /api/v1/process request per layer; a layer whose
\* request fails is recorded with its error and the loop goes on.
ProcessCalls(layers, outcomes) ==
    IF layers = <<>> THEN <<>>
    ELSE <<Call(SentinelHub, ProcessRequest(Head(layers)), Head(outcomes))>>
         \o ProcessCalls(Tail(layers), Tail(outcomes))

TokenCall(outcome) == Call(SentinelHub, "services.sentinel-hub.com/oauth/token", outcome)

SentinelHubHandler(req) ==
    /\ CASE req.method = "OPTIONS" -> Respond(Preflight(SentinelHub)) /\ outbound' = <<>>
         [] req.method \in {"GET", "PUT"} ->
              Respond(MethodNotAllowed(SentinelHub)) /\ outbound' = <<>>
         [] req.method = "POST" /\ req.action = "unparsable" ->
              Respond(InternalServerError(SentinelHub)) /\ outbound' = <<>>
         [] req.method = "POST" /\ req.action = "test-connection" ->
              IF ~req.credentials
              THEN Respond(TestFailed(SentinelHub)) /\ outbound' = <<>>
              ELSE \E token \in FetchOutcomes :
                     /\ outbound' = <<TokenCall(token)>>
                     /\ IF token = "ok" THEN Respond(TestPassed(SentinelHub, FALSE))
                        ELSE Respond(JsonSuccessMessage(SentinelHub, 200, "false", TRUE))
         [] req.method = "POST" /\ req.action = "fetch-images" ->
              IF ~req.parameters
              THEN /\ Respond(JsonSuccessError(SentinelHub, 400, "false", FALSE))
                   /\ outbound' = <<>>
              ELSE IF ~req.credentials
              THEN Respond(JsonSuccess(SentinelHub, 200, FALSE)) /\ outbound' = <<>>
              ELSE \E token \in FetchOutcomes, outcomes \in [1..Len(Layers) -> FetchOutcomes] :
                     IF token # "ok"
                     THEN \* the mock images stand in
                          /\ \A i \in 1..Len(Layers) : outcomes[i] = "ok"
                          /\ outbound' = <<TokenCall(token)>>
                          /\ Respond(JsonSuccess(SentinelHub, 200, TRUE))
                     ELSE /\ outbound' = <<TokenCall(token)>> \o ProcessCalls(Layers, outcomes)
                          /\ Respond(JsonSuccess(SentinelHub, 200,
                                        \E i \in 1..Len(Layers) : outcomes[i] # "ok"))
         [] req.method = "POST" /\ req.action = "insights" ->
              IF ~req.parameters
              THEN /\ Respond(InvalidRequest(SentinelHub))
                   /\ outbound' = <<>>
              ELSE IF ~req.credentials
              THEN \* getAccessToken throws, getSatelliteInsights falls back to mock data
                   Respond(Insight(SentinelHub, TRUE)) /\ outbound' = <<>>
              ELSE \E token \in FetchOutcomes :
                     /\ outbound' = <<TokenCall(token)>>
                     /\ Respond(Insight(SentinelHub, token # "ok"))
    /\ UNCHANGED <<calc, clientVars, dbVars>>

\* FarmersTable.handleCarbonOptIn: the enrollment form of the dashboard
\* inserts the record of the selected farmer (the farmer may have been
\* deleted by another session since the list was loaded).
HandleCarbonOptIn(farmerId) ==
    /\ Enroll(CreditRow(NewId("carbon_credits"), farmerId, "dashboard"))
    /\ UNCHANGED <<calc, clientVars, farmers, ivr_calls, api_credentials, procVars>>

(***************************************************************************)
(* The client services and the dashboard's contact form.                   *)
(***************************************************************************)

\* The operations of apiCredentialsService, carbonCreditService and
\* ivrService.initiateCall: one request to an edge function each.
ClientOperations ==
    {"getCredentials", "saveCredentials", "testSentinelHub", "testCarbonCredit",
     "testAfricasTalking", "testWhatsApp", "testTwilioWhatsapp", "testElevenLabs",
     "testMaps", "submitCarbonCredit", "getCarbonCreditStatus", "initiateCall"}

EdgeFunction(op) ==
    CASE op = "getCredentials" -> "get-api-credentials"
      [] op = "saveCredentials" -> "save-api-credentials"
      [] op = "testSentinelHub" -> "test-sentinel-hub"
      [] op = "testCarbonCredit" -> "test-carbon-credit"
      [] op = "testAfricasTalking" -> "test-africastalking"
      [] op = "testWhatsApp" -> "test-whatsapp"
      [] op = "testTwilioWhatsapp" -> "test-twilio-whatsapp"
      [] op = "testElevenLabs" -> "test-elevenlabs"
      [] op = "testMaps" -> "test-maps"
      [] op \in {"submitCarbonCredit", "getCarbonCreditStatus"} -> "carbon-credit-integration"
      [] op = "initiateCall" -> "twilio-ivr-webhook"

\* One axios request; its failure is caught and reported or rethrown.
ClientRequest(op) ==
    /\ \E outcome \in FetchOutcomes : outbound' = <<Call(op, EdgeFunction(op), outcome)>>
    /\ response' = NoResponse
    /\ UNCHANGED <<calc, clientVars, dbVars, pc, local>>

\* sentinelHub.ts: the operations that call out.
SentinelHubOperations == {"getSatelliteInsights", "testConnection", "getApiStatus"}

\* loadCredentials: GET get-api-credentials
LoadCredentials(op, outcome) == Call(op, "get-api-credentials", outcome)

\* loadCredentials, then the request to the edge function when credentials
\* were loaded and are enabled; getApiStatus runs testConnection, which loads
\* the credentials once more.
SentinelHubCalls(op, configured, loaded, again, outcome) ==
    <<LoadCredentials(op, loaded)>>
    \o (CASE loaded # "ok" \/ ~configured -> <<>>
          [] op = "getSatelliteInsights" -> <<Call(op, SentinelHub, outcome)>>
          [] op = "testConnection" -> <<Call(op, "test-sentinel-hub", outcome)>>
          [] op = "getApiStatus" ->
               <<LoadCredentials(op, again)>>
               \o (IF again = "ok" THEN <<Call(op, "test-sentinel-hub", outcome)>>
                   ELSE <<>>))

SentinelHubClient(op) ==
    /\ \E loaded, again, outcome \in FetchOutcomes, configured \in BOOLEAN :
         outbound' = SentinelHubCalls(op, configured, loaded, again, outcome)
    /\ response' = NoResponse
    /\ UNCHANGED <<calc, clientVars, dbVars, pc, local>>

\* What sentinel-hub-integration answers the insights request of the client
\* service (a body without action): 400 without farmerId when a parameter is
\* missing, else 200 with the insight, which carries the request's farmerId.
InsightsAnswer(farmerId, parameters) ==
    IF parameters THEN [status |-> 200, farmerId |-> farmerId]
    ELSE [status |-> 400, farmerId |-> NullId]

\* How axios sees the request to sentinel-hub-integration: the network may
\* fail or time out (15 s); a status outside 2xx is an error too.
InsightsOutcome(network, answer) ==
    IF network = "ok" /\ answer.status # 200 THEN "not_ok" ELSE network

\* A getSatelliteInsights that lets the error of the edge call through.
GetSatelliteInsightsRethrows(farmerId, calls, answer) ==
    IF Len(calls) = 2 /\ calls[2].outcome # "ok"
    THEN Result("getSatelliteInsights", "rejected", farmerId, "none", "none", "none")
    ELSE IF Len(calls) = 2 /\ answer.farmerId # NullId
    THEN Result("getSatelliteInsights", "resolved", answer.farmerId, "edge", "none", "none")
    ELSE Result("getSatelliteInsights", "resolved", farmerId, "mock", "none", "none")

\* getSatelliteInsights: the edge response when the call was made, succeeded
\* and response.data.farmerId is set; in every other case, a caught error
\* included, generateEnhancedMockData(farmerId, ...).
GetSatelliteInsightsResult(farmerId, calls, answer) ==
    IF Len(calls) = 2 /\ calls[2].outcome = "ok" /\ answer.farmerId # NullId
    THEN Result("getSatelliteInsights", "resolved", answer.farmerId, "edge", "none", "none")
    ELSE Result("getSatelliteInsights", "resolved", farmerId, "mock", "none", "none")

\* The credentials of the request body as the client service writes them:
\* { clientId, clientSecret }, both set (loadCredentials returned true).
InsightsCredentials == [clientId |-> TRUE, clientSecret |-> TRUE]

\* The handler's extraction: (body.credentials || {}).sentinelHub || {}, then
\* clientId || '' and clientSecret || ''; getAccessToken asks for a token
\* only when both are set.
EdgeCredentials(credentials) ==
    /\ "sentinelHub" \in DOMAIN credentials
    /\ credentials.sentinelHub.clientId /\ credentials.sentinelHub.clientSecret

\* The handler's getSatelliteInsights: the token request, when the request
\* has its parameters and the handler has credentials.
EdgeTokenCalls(parameters, credentials, token) ==
    IF parameters /\ EdgeCredentials(credentials) THEN <<TokenCall(token)>> ELSE <<>>

\* sentinelData of the handler's insight: apiResponse true and 'Sentinel Hub
\* API' after getAccessToken returned, false and 'Mock Data (API Error)' from
\* the catch.
EdgeSentinelData(credentials, token) ==
    IF EdgeCredentials(credentials) /\ token = "ok"
    THEN [apiResponse |-> TRUE, dataSource |-> "Sentinel Hub API"]
    ELSE [apiResponse |-> FALSE, dataSource |-> "Mock Data (API Error)"]

\* sentinelData of the insight the client service returns: the handler's
\* sentinelData spread and then overwritten with dataSource 'Sentinel Hub API'
\* and apiResponse true; generateEnhancedMockData's otherwise.
SentinelData(source, edgeData) ==
    IF source = "edge"
    THEN [apiResponse |-> TRUE, dataSource |-> "Sentinel Hub API"]
    ELSE [apiResponse |-> FALSE, dataSource |-> "Enhanced Mock Data"]

\* getSatelliteInsights with the handler its request reaches: outbound holds
\* the service's requests and then the handler's token request.
GetSatelliteInsights(farmerId, parameters) ==
    /\ \E loaded, network, token \in FetchOutcomes, configured \in BOOLEAN :
         LET answer == InsightsAnswer(farmerId, parameters)
             calls == SentinelHubCalls("getSatelliteInsights", configured, loaded, "ok",
                                       InsightsOutcome(network, answer))
             reached == Len(calls) = 2 /\ network = "ok"
             edgeCalls == IF reached
                          THEN EdgeTokenCalls(parameters, InsightsCredentials, token)
                          ELSE <<>>
             result == GetSatelliteInsightsResult(farmerId, calls, answer)
         IN  /\ Len(calls) = 1 => network = "ok"
             /\ edgeCalls = <<>> => token = "ok"
             /\ outbound' = calls \o edgeCalls
             /\ client' = result @@ SentinelData(result.source,
                                                 EdgeSentinelData(InsightsCredentials, token))
    /\ response' = NoResponse
    /\ UNCHANGED <<calc, dbVars, pc, local, maps>>

\* ivrService.initiateWhatsAppMessage: the Twilio webhook, and on any error
\* (also a payload without phoneNumber) the Meta webhook.
InitiateWhatsAppMessageCalls(phoneNumber, twilio, meta) ==
    (IF phoneNumber
     THEN <<Call("initiateWhatsAppMessage", "twilio-whatsapp-webhook", twilio)>>
     ELSE <<>>)
    \o (IF phoneNumber /\ twilio = "ok" THEN <<>>
        ELSE <<Call("initiateWhatsAppMessage", "meta-whatsapp-webhook", meta)>>)

\* payload and fallbackPayload: the first names the action and the farmer,
\* the second carries the phone number and the message only.
Payload(farmerId, phoneNumber) ==
    [action |-> "send_message", farmerId |-> farmerId, phoneNumber |-> phoneNumber]
FallbackPayload(phoneNumber) ==
    [action |-> "absent", farmerId |-> NullId, phoneNumber |-> phoneNumber]

\* What a WhatsApp handler does with a JSON POST body: send_message sends
\* and logs when the credentials are stored, the number is present and the
\* vendor accepts the message, else it throws into the catch; a body with
\* neither action nor object leaves the try block without a Response
\* (twilio-whatsapp-webhook answers 400 Invalid request).
PostAnswer(h, body, vendor) ==
    LET creds == StoredSection(SectionOf(h))
    IN  CASE body.action = "send_message" /\ creds.enabled /\ creds.complete
                 /\ body.phoneNumber /\ vendor = "ok" -> "sent"
          [] body.action = "send_message" -> "caught"
          [] OTHER -> IF h = TwilioWhatsapp THEN "invalid" ELSE "falls_through"

\* How axios sees a POST to an edge function: the network fails, or the
\* handler answers; only the 200 of a sent message is a success, a caught
\* error is 500, and for a handler without a Response the runtime answers 500
\* or not at all.
PostOutcomes(network, answer) ==
    CASE network # "ok" -> {network}
      [] answer = "sent" -> {"ok"}
      [] answer = "falls_through" -> {"not_ok", "rejects"}
      [] OTHER -> {"not_ok"}

\* The WhatsAppResult: twilio_whatsapp_ or meta_whatsapp_ and 'sent' after
\* the POST that succeeded, whatsapp_ and 'failed' from the inner catch.
WhatsAppResult(farmerId, calls) ==
    LET last == calls[Len(calls)]
    IN  Result("initiateWhatsAppMessage", "resolved", farmerId, "none",
               IF last.outcome = "ok" THEN "sent" ELSE "failed",
               CASE last.outcome # "ok" -> "whatsapp_"
                 [] last.to = TwilioWhatsapp -> "twilio_whatsapp_"
                 [] OTHER -> "meta_whatsapp_")

\* initiateWhatsAppMessage together with the handlers its requests reach:
\* the Twilio webhook gets the payload, the Meta webhook the fallback
\* payload; a handler that sent the message logs its row.
InitiateWhatsAppMessage(farmerId, phoneNumber) ==
    /\ \E network, vendor, fallback, graph \in FetchOutcomes :
         LET first == PostAnswer(TwilioWhatsapp, Payload(farmerId, phoneNumber), vendor)
             second == PostAnswer("meta-whatsapp-webhook", FallbackPayload(phoneNumber), graph)
         IN  \E twilio \in PostOutcomes(network, first), meta \in PostOutcomes(fallback, second) :
               LET calls == InitiateWhatsAppMessageCalls(phoneNumber, twilio, meta)
                   sender == calls[Len(calls)].to
               IN  /\ outbound' = calls
                   /\ client' = WhatsAppResult(farmerId, calls)
                   /\ IF calls[Len(calls)].outcome = "ok"
                      THEN LogCall(SentRow(sender, IF sender = TwilioWhatsapp
                                                   THEN farmerId ELSE NullId))
                      ELSE UNCHANGED <<ivr_calls, nextId>>
    /\ response' = NoResponse
    /\ UNCHANGED <<calc, farmers, carbon_credits, api_credentials, pc, local, maps>>

\* initiateContact by WhatsApp: the message, then the log row.
InitiateWhatsAppContact ==
    /\ \E id \in Ids(farmers), twilio \in FetchOutcomes, meta \in {"not_ok", "rejects"} :
         /\ outbound' = InitiateWhatsAppMessageCalls(TRUE, twilio, meta)
         /\ Len(outbound') = 1 => meta = "not_ok"
         /\ LogCall(CallRow(NewId("ivr_calls"), id, "whatsapp_sent", "whatsapp",
                            NullCondition, "message"))
    /\ response' = NoResponse
    /\ UNCHANGED <<calc, clientVars, farmers, carbon_credits, api_credentials, pc, local>>

(***************************************************************************)
(* The farmers registry: the dashboard's farmer form and the handlers that *)
(* register the senders of inbound messages.                               *)
(***************************************************************************)

\* What api_credentials holds once the settings page has been used or not.
StoredCredentials ==
    {<<>>} \cup {<<[id |-> "main", credentials |-> b]>> : b \in CredentialBlobs}

InitStored ==
    /\ InitCalc /\ InitProcs
    /\ farmers = <<>> /\ ivr_calls = <<>> /\ carbon_credits = <<>>
    /\ api_credentials \in StoredCredentials
    /\ nextId = [t \in {"farmers", "ivr_calls", "carbon_credits"} |-> 1]

\* One farmer is registered (the dashboard's add form, as HandleAddFarmer).
InitRegistered ==
    /\ InitCalc /\ InitProcs
    /\ farmers = <<FarmerRow(1, <<"+", "1">>)>>
    /\ ivr_calls = <<>> /\ carbon_credits = <<>>
    /\ api_credentials \in StoredCredentials
    /\ nextId = [t \in {"farmers", "ivr_calls", "carbon_credits"} |->
                    IF t = "farmers" THEN 2 ELSE 1]

NextFarmers ==
    \/ HandleAddFarmer
    \/ HandleUpdateFarmer
    \/ HandleDeleteFarmer
    \/ \E p \in Procs, from \in PhoneNumbers : WhatsappInbound(p, "whatsapp-webhook", from)
    \/ \E p \in Procs : WhatsappRegisterAndLog(p)
SpecFarmers == InitCreds /\ [][NextFarmers]_vars

(***************************************************************************)
(* C3: in every reachable state no two farmers rows share a phone_number;  *)
(* an auto-registration whose sender was stored in the meantime (by a      *)
(* concurrent inbound message or by the dashboard) is rejected and leaves  *)
(* the farmers table unchanged.                                            *)
(***************************************************************************)
Stored(phone) == \E i \in 1..Len(farmers) : farmers[i].phone_number = phone

NextLookup ==
    \/ HandleAddFarmer
    \/ \E req \in TwilioIvrCalls : req.step = "menu" /\ TwilioIvrPost(req)
    \/ \E n \in PhoneNumbers : TwilioWhatsappInbound(WhatsappAddress(n))
    \/ \E p \in Procs, h \in MetaHandlers, from \in PhoneNumbers : WhatsappInbound(p, h, from)
    \/ \E p \in Procs : WhatsappRegisterAndLog(p)
SpecLookup == InitStored /\ [][NextLookup]_vars

(***************************************************************************)
(* C4: when a call or message arrives whose sender number P is the         *)
(* phone_number of a stored farmer, the lookup of the Twilio IVR handler,  *)
(* of the Twilio WhatsApp handler and of the Meta WhatsApp handlers finds  *)
(* that farmer: the IVR does not answer "not registered", the Twilio       *)
(* handler logs the message, the Meta handlers hold the farmer's id.       *)
(***************************************************************************)
C4_LookupRoundTrips ==
    [][/\ \A req \in TwilioIvrCalls :
            (TwilioIvrPost(req) /\ Stored(req.From))
            => response'.body # "twiml_not_registered"
       /\ \A n \in PhoneNumbers :
            (TwilioWhatsappInbound(WhatsappAddress(n)) /\ Stored(n))
            => Len(ivr_calls') = Len(ivr_calls) + 1
       /\ \A p \in Procs, h \in MetaHandlers, n \in PhoneNumbers :
            (WhatsappInbound(p, h, n) /\ Stored(n))
            => local'[p].farmer_id = FarmerByPhone(n).id]_vars

(***************************************************************************)
(* The interaction log of calls: the IVR and the voice handler (the        *)
(* WhatsApp handlers only insert).                                         *)
(***************************************************************************)
NextCalls ==
    \/ HandleAddFarmer
    \/ HandleDeleteFarmer
    \/ \E req \in TwilioIvrCalls : req.step = "crop_condition" /\ TwilioIvrPost(req)
    \/ \E farmerId \in FarmerIds : ElevenLabsInitiateCall(farmerId)
    \/ \E event \in WebhookEvents : ElevenLabsWebhook(event)
SpecCalls == InitStored /\ [][NextCalls]_vars

(***************************************************************************)
(* C5: ivr_calls is append-only: no step of any handler changes a column   *)
(* of a row that is already in the table.                                  *)
(***************************************************************************)
C5_AppendOnly ==
    [][\A i \in 1..Len(ivr_calls), j \in 1..Len(ivr_calls') :
         ivr_calls'[j].id = ivr_calls[i].id => ivr_calls'[j] = ivr_calls[i]]_vars

(***************************************************************************)
(* Enrollment: the handlers that write carbon_credits.                     *)
(***************************************************************************)
NextEnroll ==
    \/ HandleAddFarmer
    \/ HandleDeleteFarmer
    \/ \E p \in Procs, farmerId \in FarmerIds : CarbonCreditSelect(p, farmerId)
    \/ \E p \in Procs : CarbonCreditWrite(p)
    \/ \E req \in TwilioIvrCalls : req.step = "carbon_optin" /\ TwilioIvrPost(req)
    \/ \E event \in WebhookEvents : ElevenLabsWebhook(event)
SpecEnroll == InitCreds /\ [][NextEnroll]_vars

(***************************************************************************)
(* C6: carbon_credits holds at most one row per farmer in every reachable  *)
(* state.                                                                  *)
(***************************************************************************)
C6_OneRowPerFarmer ==
    \A i, j \in 1..Len(carbon_credits) :
        i # j => carbon_credits[i].farmer_id # carbon_credits[j].farmer_id

(***************************************************************************)
(* The edge handlers as HTTP endpoints: every handler, every method, the   *)
(* bodies that parse and those that do not.                                *)
(***************************************************************************)
NextHttp ==
    \/ GetCredentials(1)
    \/ SaveCredentialsReceive(1)
    \/ SaveCredentialsSelect(1)
    \/ SaveCredentialsWrite(1)
    \/ \E h \in MetaHandlers, req \in WhatsappPlainRequests : WhatsappPlain(h, req)
    \/ \E h \in MetaHandlers, req \in SendMessageRequests : WhatsappSendMessage(h, req)
    \/ \E req \in TwilioWhatsappPlainRequests : TwilioWhatsappPlain(req)
    \/ \E req \in SendMessageRequests : TwilioWhatsappSendMessage(req)
    \/ \E req \in TwilioIvrPlainRequests : TwilioIvrPlain(req)
    \/ \E req \in ElevenLabsPlainRequests : ElevenLabsPlain(req)
    \/ \E farmerId \in FarmerIds : ElevenLabsInitiateCall(farmerId)
    \/ \E req \in CarbonCreditPlainRequests : CarbonCreditPlain(req)
    \/ \E h \in TestHandlers, req \in TestRequests : ConnectionTest(h, req)
    \/ \E req \in SentinelRequests : SentinelHubHandler(req)
SpecHttp == InitRegistered /\ [][NextHttp]_vars

(***************************************************************************)
(* C7: every response of an edge handler carries the CORS headers and its  *)
(* status is 200, 400, 403 or 500.                                         *)
(***************************************************************************)
C7_CorsAndStatus ==
    response # NoResponse => response.cors /\ response.status \in {200, 400, 403, 500}

(***************************************************************************)
(* C8: a handler answers a caught exception with a JSON body that has      *)
(* success = false and a message, with status 200 or 500.                  *)
(***************************************************************************)
C8_CaughtMeansFailure ==
    response.caught =>
        /\ response.body = "json" /\ response.success = "false" /\ response.message
        /\ response.status \in {200, 500}

(***************************************************************************)
(* send_message of the three WhatsApp handlers, with farmers coming and    *)
(* going.                                                                  *)
(***************************************************************************)
NextSend ==
    \/ HandleAddFarmer
    \/ HandleDeleteFarmer
    \/ \E h \in MetaHandlers, req \in SendMessageRequests : WhatsappSendMessage(h, req)
    \/ \E req \in SendMessageRequests : TwilioWhatsappSendMessage(req)
SpecSend == InitStored /\ [][NextSend]_vars

(***************************************************************************)
(* C9: a send_message whose credentials are missing or disabled, or whose  *)
(* vendor call does not return OK, answers 500 with success = false and    *)
(* inserts no ivr_calls row; a send_message inserts its '*_sent' row only  *)
(* when its vendor call returned OK.                                       *)
(***************************************************************************)
C9_SendMessageFailure ==
    [][\A h \in MetaHandlers \cup {TwilioWhatsapp}, req \in SendMessageRequests :
         SendMessage(h, req) =>
            LET creds == StoredSection(SectionOf(h))
                vendorOk == outbound' # <<>> /\ outbound'[1].outcome = "ok"
            IN  /\ (~creds.present \/ ~creds.enabled \/ ~vendorOk) =>
                      /\ response'.status = 500 /\ response'.success = "false"
                      /\ ivr_calls' = ivr_calls
                /\ ivr_calls' # ivr_calls =>
                      /\ vendorOk
                      /\ ivr_calls' = Append(ivr_calls, SentRow(h, req.farmerId))]_vars

\* A send_message of a stored farmer reached the vendor, which answered non-OK.
C9_Witness ==
    /\ outbound # <<>> /\ outbound[1].outcome = "not_ok"
    /\ outbound[1].op \in MetaHandlers \cup {TwilioWhatsapp}
    /\ response.status = 500 /\ response.success = "false"
    /\ farmers # <<>>

(***************************************************************************)
(* Outbound calls: every operation of the handlers and of the client       *)
(* services that calls a vendor or an edge function.                       *)
(***************************************************************************)
NextOutbound ==
    \/ \E h \in TestHandlers, req \in TestRequests : ConnectionTest(h, req)
    \/ \E req \in SentinelRequests : SentinelHubHandler(req)
    \/ \E h \in MetaHandlers, req \in SendMessageRequests : WhatsappSendMessage(h, req)
    \/ \E req \in SendMessageRequests : TwilioWhatsappSendMessage(req)
    \/ \E farmerId \in FarmerIds : ElevenLabsInitiateCall(farmerId)
    \/ \E op \in ClientOperations : ClientRequest(op)
    \/ \E op \in SentinelHubOperations : SentinelHubClient(op)
    \/ InitiateWhatsAppContact
SpecOutbound == InitRegistered /\ [][NextOutbound]_vars

NextInsights ==
    \/ \E farmerId \in FarmerIds, parameters \in BOOLEAN :
          GetSatelliteInsights(farmerId, parameters)
    \/ \E op \in SentinelHubOperations \ {"getSatelliteInsights"} : SentinelHubClient(op)
    \/ \E req \in SentinelRequests : SentinelHubHandler(req)
SpecInsights == InitRegistered /\ [][NextInsights]_vars

(***************************************************************************)
(* C11: getSatelliteInsights always resolves, never rejects, with an       *)
(* insight for the requested farmerId: the mock generator's when the       *)
(* credentials are not configured, the edge call fails or times out, or    *)
(* the edge response has no farmerId, and the edge response otherwise.     *)
(***************************************************************************)
C11_AlwaysAnInsight ==
    [][\A farmerId \in FarmerIds, parameters \in BOOLEAN :
         GetSatelliteInsights(farmerId, parameters) =>
            LET edgeAnswered ==
                    /\ Len(outbound') = 2 /\ outbound'[2].outcome = "ok"
                    /\ InsightsAnswer(farmerId, parameters).farmerId # NullId
            IN  /\ client'.settled = "resolved"
                /\ client'.farmerId = farmerId
                /\ client'.source = IF edgeAnswered THEN "edge" ELSE "mock"]_vars

\* The edge call was made and failed, and the service resolved with mock data.
C11_Witness ==
    /\ client.op = "getSatelliteInsights" /\ client.settled = "resolved"
    /\ client.source = "mock"
    /\ Len(outbound) = 2 /\ outbound[2].outcome = "rejects"

(***************************************************************************)
(* The voice handler: calls to farmers, and the webhooks that report them. *)
(***************************************************************************)
NextVoice ==
    \/ HandleAddFarmer
    \/ HandleDeleteFarmer
    \/ \E farmerId \in FarmerIds : ElevenLabsInitiateCall(farmerId)
    \/ \E req \in WebhookRequests : ElevenLabsWebhookRequest(req)
SpecVoice == InitStored /\ [][NextVoice]_vars

(***************************************************************************)
(* C12: a webhook POST to the voice handler that carries no valid          *)
(* ElevenLabs signature leaves ivr_calls, farmers and carbon_credits       *)
(* unchanged.                                                              *)
(***************************************************************************)
C12_UnsignedWebhookChangesNothing ==
    [][\A req \in WebhookRequests :
         (ElevenLabsWebhookRequest(req) /\ req.signature # "valid")
         => UNCHANGED <<ivr_calls, farmers, carbon_credits>>]_vars

(***************************************************************************)
(* The verification status: every code path that writes carbon_credits.    *)
(***************************************************************************)
NextStatus ==
    \/ HandleDeleteFarmer
    \/ \E farmerId \in FarmerIds : HandleCarbonOptIn(farmerId)
    \/ \E p \in Procs, farmerId \in FarmerIds : CarbonCreditSelect(p, farmerId)
    \/ \E p \in Procs : CarbonCreditWrite(p)
    \/ \E req \in TwilioIvrCalls : req.step = "carbon_optin" /\ TwilioIvrPost(req)
    \/ \E event \in WebhookEvents : ElevenLabsWebhook(event)
SpecStatus == InitRegistered /\ [][NextStatus]_vars

(***************************************************************************)
(* C13: every carbon_credits row is inserted with verification_status      *)
(* 'pending', no step changes the verification_status of a stored row, and *)
(* in every reachable state the value is pending, verified or rejected.    *)
(***************************************************************************)
C13_PendingAndUnchanged ==
    /\ [](\A i \in 1..Len(carbon_credits) :
            carbon_credits[i].verification_status \in {"pending", "verified", "rejected"})
    /\ [][\A j \in 1..Len(carbon_credits') :
            IF \E i \in 1..Len(carbon_credits) : carbon_credits[i].id = carbon_credits'[j].id
            THEN \A i \in 1..Len(carbon_credits) :
                    carbon_credits[i].id = carbon_credits'[j].id
                    => carbon_credits'[j].verification_status
                         = carbon_credits[i].verification_status
            ELSE carbon_credits'[j].verification_status = "pending"]_vars

\* A POST has written a record that stands next to one enrolled by voice.
C13_Witness ==
    /\ Len(carbon_credits) = 2
    /\ \E i, j \in 1..2 : /\ carbon_credits[i].practices_reported = "posted"
                          /\ carbon_credits[j].practices_reported = "voice"
    /\ response.handler = CarbonCredit /\ response.status = 200

\* ---------------------------------------------------------------------------
\* The status GET of carbon-credit-integration.
NextCreditStatus ==
    \/ \E farmerId \in FarmerIds : HandleCarbonOptIn(farmerId)
    \/ \E p \in Procs, farmerId \in FarmerIds : CarbonCreditSelect(p, farmerId)
    \/ \E p \in Procs : CarbonCreditWrite(p)
    \/ \E req \in CarbonCreditPlainRequests : CarbonCreditPlain(req)
SpecCreditStatus == InitRegistered /\ [][NextCreditStatus]_vars

\* C14: a GET to carbon-credit-integration that carries a farmer_id is
\* answered 200 with a JSON body (the row or null, market data, eligible
\* practices, estimated earnings) and not with an error.
C14_GetAnswersStatus ==
    [][\A req \in CarbonCreditPlainRequests :
          (CarbonCreditPlain(req) /\ req.method = "GET" /\ req.farmer_id # NullId)
              => (response'.status = 200 /\ response'.body = "json" /\ ~response'.error)]_vars

\* ---------------------------------------------------------------------------
\* The dashboard's WhatsApp message and the send_message handlers.
NextWhatsApp ==
    \/ \E farmerId \in FarmerIds, phoneNumber \in BOOLEAN :
          InitiateWhatsAppMessage(farmerId, phoneNumber)
    \/ \E req \in SendMessageRequests : WhatsappSendMessage("meta-whatsapp-webhook", req)
    \/ \E req \in SendMessageRequests : TwilioWhatsappSendMessage(req)
    \/ \E req \in WhatsappPlainRequests : WhatsappPlain("meta-whatsapp-webhook", req)
    \/ HandleAddFarmer
SpecWhatsApp == InitRegistered /\ [][NextWhatsApp]_vars

\* C15: initiateWhatsAppMessage never rejects; a POST to the Meta webhook is
\* preceded by a POST to the Twilio webhook that failed (so none follows a
\* Twilio POST that succeeded); the status is 'failed' exactly when a Twilio
\* POST and a Meta POST were both made and both failed.
C15_MetaOnlyAfterTwilioFailed ==
    [][\A farmerId \in FarmerIds, phoneNumber \in BOOLEAN :
          InitiateWhatsAppMessage(farmerId, phoneNumber) =>
              /\ client'.settled = "resolved"
              /\ \A j \in 1..Len(outbound') :
                    outbound'[j].to = "meta-whatsapp-webhook" =>
                        \E i \in 1..(j - 1) : /\ outbound'[i].to = TwilioWhatsapp
                                              /\ outbound'[i].outcome # "ok"
              /\ client'.status = "failed" <=>
                    /\ \E i \in 1..Len(outbound') : outbound'[i].to = TwilioWhatsapp
                    /\ \E i \in 1..Len(outbound') : outbound'[i].to = "meta-whatsapp-webhook"
                    /\ \A i \in 1..Len(outbound') : outbound'[i].outcome # "ok"]_vars

\* C16: when the Twilio POST fails while the Meta WhatsApp credentials are
\* enabled (and the Graph API would accept the message), the fallback makes
\* meta-whatsapp-webhook log a 'meta_whatsapp_sent' row and the result is
\* 'sent' with a messageId that starts with meta_whatsapp_.
C16_FallbackSends ==
    [][\A farmerId \in FarmerIds :
          (/\ InitiateWhatsAppMessage(farmerId, TRUE)
           /\ outbound'[1].outcome # "ok"
           /\ StoredSection("whatsapp").enabled /\ StoredSection("whatsapp").complete)
              => /\ client'.status = "sent" /\ client'.messageId = "meta_whatsapp_"
                 /\ Len(ivr_calls') = Len(ivr_calls) + 1
                 /\ ivr_calls'[Len(ivr_calls')].call_status = "meta_whatsapp_sent"]_vars

\* ---------------------------------------------------------------------------
\* Inbound WhatsApp messages of the two Meta handlers.
NextInbound ==
    \/ \E p \in Procs, h \in MetaHandlers, from \in PhoneNumbers : WhatsappInbound(p, h, from)
    \/ \E p \in Procs : WhatsappRegisterAndLog(p)
    \/ HandleDeleteFarmer
SpecInbound == InitStored /\ [][NextInbound]_vars

\* C17: when handleIncomingMessage has processed a message whose sender had
\* no farmers row, a farmers row with the sender's phone_number exists and
\* the ivr_calls row logged for the message carries that farmer's id.
C17_LoggedForRegisteredSender ==
    [][\A p \in Procs :
          (WhatsappRegisterAndLog(p) /\ local[p].farmer_id = NullId) =>
              \E i \in 1..Len(farmers') :
                  /\ farmers'[i].phone_number = local[p].phoneNumber
                  /\ Len(ivr_calls') = Len(ivr_calls) + 1
                  /\ ivr_calls'[Len(ivr_calls')].farmer_id = farmers'[i].id]_vars

\* ---------------------------------------------------------------------------
\* The webhook verification GET and the settings that store the token.
NextVerify ==
    \/ SaveCredentialsReceive(1)
    \/ SaveCredentialsSelect(1)
    \/ SaveCredentialsWrite(1)
    \/ \E h \in MetaHandlers, req \in WhatsappPlainRequests : WhatsappPlain(h, req)
SpecVerify == InitStored /\ [][NextVerify]_vars

\* C18: the verification GET is answered 200 only when a non-empty
\* whatsapp.verifyToken is stored, hub.mode is 'subscribe' and
\* hub.verify_token equals the stored token; in every other case, an absent
\* or empty stored token included, it is answered 403.
C18_VerificationNeedsToken ==
    [][\A h \in MetaHandlers, req \in WhatsappPlainRequests :
          (WhatsappPlain(h, req) /\ req.method = "GET") =>
              LET credData == Single(SelectSeq(api_credentials, IsMain))
                  stored == IF credData = Null THEN "absent"
                            ELSE credData.credentials.verifyToken
              IN  response'.status =
                      IF /\ stored \notin {"absent", ""}
                         /\ req.mode = "subscribe" /\ req.token = stored
                      THEN 200 ELSE 403]_vars

(***************************************************************************)
(* utils/googleMapsLoader.ts: the singleton that inserts the Google Maps   *)
(* script.  maps holds the loader's fields (isLoaded, loadPromise, config),*)
(* window.google, the script elements it created and which of them are in  *)
(* the document, the promises it created and what each load call returned  *)
(* (0: Promise.resolve()).                                                 *)
(***************************************************************************)
MaxLoads == 3

ApiKeys == {"A", "B"}

\* new Promise of the new-script branch: the callback window[callbackName] is
\* registered and the 10 s timer is armed.
NewScriptPromise(key) ==
    [state |-> "pending", kind |-> "new", key |-> key, timer |-> TRUE,
     callback |-> TRUE, polling |-> FALSE]

\* new Promise of the existing-script branch: resolved at once when
\* window.google.maps is there, else checkLoaded polls every 100 ms and the
\* 10 s timer is armed.
ExistingScriptPromise(key, google) ==
    [state |-> IF google THEN "resolved" ELSE "pending", kind |-> "existing",
     key |-> key, timer |-> ~google, callback |-> FALSE, polling |-> ~google]

\* resolve() and reject() settle a pending promise and leave a settled one.
Settle(promise, state) ==
    IF promise.state = "pending" THEN [promise EXCEPT !.state = state] ELSE promise

\* document.querySelector(`script[src*="maps.googleapis.com"][src*="${apiKey}"]`)
ExistingScript(key) == \E s \in maps.document : maps.scripts[s].key = key

MapsUnchanged == UNCHANGED <<calc, dbVars, procVars, client>>

\* load(config)
Load(key) ==
    /\ Len(maps.returned) < MaxLoads
    /\ maps' =
         IF maps.isLoaded /\ maps.google /\ maps.config = key
         THEN [maps EXCEPT !.returned = Append(@, 0)]
         ELSE IF maps.loadPromise # 0 /\ maps.config = key
         THEN [maps EXCEPT !.returned = Append(@, maps.loadPromise)]
         ELSE IF ExistingScript(key)
         THEN [maps EXCEPT !.config = key,
                           !.isLoaded = @ \/ maps.google,
                           !.promises = Append(@, ExistingScriptPromise(key, maps.google)),
                           !.loadPromise = Len(maps.promises) + 1,
                           !.returned = Append(@, Len(maps.promises) + 1)]
         ELSE [maps EXCEPT !.config = key,
                           !.document = {Len(maps.scripts) + 1},
                           !.scripts = Append(@, [key |-> key, status |-> "loading",
                                                  promise |-> Len(maps.promises) + 1]),
                           !.promises = Append(@, NewScriptPromise(key)),
                           !.loadPromise = Len(maps.promises) + 1,
                           !.returned = Append(@, Len(maps.promises) + 1)]
    /\ MapsUnchanged

\* reset()
Reset ==
    /\ maps' = [maps EXCEPT !.loadPromise = 0, !.isLoaded = FALSE, !.config = "none"]
    /\ MapsUnchanged

\* The script has been fetched and run: window.google.maps is defined and the
\* callback named in the src is called if it is still registered.
ScriptLoads(s) ==
    /\ s \in 1..Len(maps.scripts) /\ maps.scripts[s].status = "loading"
    /\ LET p == maps.scripts[s].promise
       IN  maps' = [maps EXCEPT !.scripts[s].status = "loaded",
                                !.google = TRUE,
                                !.isLoaded = @ \/ maps.promises[p].callback,
                                !.promises[p] =
                                    IF maps.promises[p].callback
                                    THEN [Settle(@, "resolved") EXCEPT !.callback = FALSE]
                                    ELSE @]
    /\ MapsUnchanged

\* script.onerror
ScriptError(s) ==
    /\ s \in 1..Len(maps.scripts) /\ maps.scripts[s].status = "loading"
    /\ LET p == maps.scripts[s].promise
       IN  maps' = [maps EXCEPT !.scripts[s].status = "failed",
                                !.loadPromise = 0,
                                !.isLoaded = FALSE,
                                !.promises[p] = [Settle(@, "rejected") EXCEPT !.callback = FALSE]]
    /\ MapsUnchanged

\* The 10 s timer of a promise; timers of equal delay fire in the order in
\* which they were armed.
Timeout(p) ==
    /\ p \in 1..Len(maps.promises) /\ maps.promises[p].timer
    /\ \A q \in 1..(p - 1) : ~maps.promises[q].timer
    /\ maps' =
         IF maps.isLoaded
         THEN [maps EXCEPT !.promises[p].timer = FALSE]
         ELSE IF maps.promises[p].kind = "new"
         THEN [maps EXCEPT !.loadPromise = 0,
                           !.promises[p] = [Settle(@, "rejected") EXCEPT
                                               !.timer = FALSE, !.callback = FALSE]]
         ELSE [maps EXCEPT !.promises[p] = [Settle(@, "rejected") EXCEPT !.timer = FALSE]]
    /\ MapsUnchanged

\* checkLoaded once window.google.maps is there (until then it re-arms itself).
CheckLoaded(p) ==
    /\ p \in 1..Len(maps.promises) /\ maps.promises[p].polling
    /\ maps.google
    /\ maps' = [maps EXCEPT !.isLoaded = TRUE,
                            !.promises[p] = [Settle(@, "resolved") EXCEPT !.polling = FALSE]]
    /\ MapsUnchanged

InitMaps == InitCalc /\ InitDb /\ InitProcs

NextMaps ==
    \/ \E key \in ApiKeys : Load(key)
    \/ Reset
    \/ \E s \in 1..MaxLoads : ScriptLoads(s)
    \/ \E s \in 1..MaxLoads : ScriptError(s)
    \/ \E p \in 1..MaxLoads : Timeout(p)
    \/ \E p \in 1..MaxLoads : CheckLoaded(p)
SpecMaps == InitMaps /\ [][NextMaps]_vars

\* The browser runs every timer that is due; whether and when a script is
\* fetched is up to the network, and load and reset are up to the pages.
SpecMapsTimers ==
    /\ SpecMaps
    /\ \A p \in 1..MaxLoads : WF_vars(Timeout(p)) /\ WF_vars(CheckLoaded(p))

\* A load for the key is in flight: a promise created for it is pending.
InFlight(key) ==
    {p \in 1..Len(maps.promises) :
        maps.promises[p].key = key /\ maps.promises[p].state = "pending"}

\* C19: while a load for API key K is in flight, a further load(K) inserts no
\* script element and returns an in-flight promise of K (so it settles as
\* that load does); and the document never holds more than one Google Maps
\* script element of the loader.
C19_OneLoadPerKey ==
    /\ [](Cardinality(maps.document) <= 1)
    /\ [][\A key \in ApiKeys :
            (Load(key) /\ InFlight(key) # {}) =>
                /\ Len(maps'.scripts) = Len(maps.scripts)
                /\ maps'.returned[Len(maps'.returned)] \in InFlight(key)]_vars

\* What load call i returned has settled.
Settled(i) ==
    /\ Len(maps.returned) >= i
    /\ maps.returned[i] = 0 \/ maps.promises[maps.returned[i]].state # "pending"

\* C20: every promise returned by load eventually settles.
C20_EveryLoadSettles ==
    \A i \in 1..MaxLoads : (Len(maps.returned) >= i) ~> Settled(i)

\* C21: an insight getSatelliteInsights returns is marked apiResponse true
\* and dataSource 'Sentinel Hub API' only if the handler obtained a Sentinel
\* Hub access token for the request; an insight from fallback or mock data
\* is marked apiResponse false.
C21_ApiResponseMeansToken ==
    [][\A farmerId \in FarmerIds, parameters \in BOOLEAN :
          GetSatelliteInsights(farmerId, parameters) =>
              LET tokenObtained ==
                      \E i \in 1..Len(outbound') :
                          /\ outbound'[i].to = TokenCall("ok").to
                          /\ outbound'[i].outcome = "ok"
              IN  /\ client'.apiResponse = tokenObtained
                  /\ (client'.dataSource = "Sentinel Hub API") = tokenObtained]_vars

(***************************************************************************)
(* services/sentinelHub.ts: the mock generator.  Strings are sequences of  *)
(* char codes; ndvi is kept in units of 10^-5, moisture and the vegetation *)
(* index in units of 10^-5 percent, so that the arithmetic of the code is  *)
(* exact on the inputs below.                                              *)
(***************************************************************************)

\* farmerId + date, for the farmer ids "1", "2" and the dates 2025-01-15 and
\* 2025-07-15.
IdString(farmerId) == <<48 + farmerId>>
Dates == {<<50, 48, 50, 53, 45, 48, 49, 45, 49, 53>>,
          <<50, 48, 50, 53, 45, 48, 55, 45, 49, 53>>}

\* Latitudes in degrees: the equator, the northern temperate zone, the
\* southern tropics.
Latitudes == {0, 45, -18}

\* fieldBoundaries: undefined, one field, two fields.
FieldCounts == {0, 1, 2}

\* getMonth() of the clock: 0..11
Months == 0..11

\* hash = ((hash << 5) - hash) + char; hash = hash & hash: 31 * hash + char
\* modulo 2^32, kept as two 16-bit halves.
HashStep(hash, char) ==
    LET lo == 31 * hash.lo + char
    IN  [hi |-> (31 * hash.hi + lo \div 65536) % 65536, lo |-> lo % 65536]

RECURSIVE HashFrom(_, _)
HashFrom(hash, str) ==
    IF str = <<>> THEN hash ELSE HashFrom(HashStep(hash, Head(str)), Tail(str))

\* hashCode(str): Math.abs of the signed 32-bit hash
hashCode(str) ==
    LET hash == HashFrom([hi |-> 0, lo |-> 0], str)
    IN  IF hash.hi < 32768 THEN hash
        ELSE [hi |-> 65535 - hash.hi + (IF hash.lo = 0 THEN 1 ELSE 0),
              lo |-> (65536 - hash.lo) % 65536]

\* seededRandom(seed): draw n of the generator, in thousandths.  The
\* generator iterates x = Math.sin(x) * 10000 from Math.sin(seed) * 10000 and
\* returns the fractional part; the sine is replaced by a fixed function of
\* the seed and the number of the draw, which is all the generator depends on.
seededRandom(seed, n) == (seed.hi * 7 + seed.lo * 37 + n * 211) % 1000

Abs(x) == IF x < 0 THEN -x ELSE x
Max(a, b) == IF a > b THEN a ELSE b
Min(a, b) == IF a < b THEN a ELSE b

\* new Date(date).getMonth() of "YYYY-MM-DD"
GetMonth(date) == (date[6] - 48) * 10 + (date[7] - 48) - 1

\* getSeasonalFactor, in tenths
getSeasonalFactor(month, latitude) ==
    IF latitude >= 0
    THEN (IF month >= 3 /\ month <= 8 THEN 8 ELSE 5)
    ELSE (IF month >= 9 \/ month <= 2 THEN 8 ELSE 5)

\* getClimateFactor, in tenths
getClimateFactor(latitude) ==
    CASE 10 * Abs(latitude) <= 235 -> 9
      [] Abs(latitude) <= 35 -> 8
      [] Abs(latitude) <= 60 -> 7
      [] OTHER -> 4

getClimateZone(latitude) ==
    CASE 10 * Abs(latitude) <= 235 -> "Tropical"
      [] Abs(latitude) <= 35 -> "Subtropical"
      [] Abs(latitude) <= 60 -> "Temperate"
      [] OTHER -> "Polar"

getSeason(month, latitude) ==
    IF latitude >= 0
    THEN CASE month >= 3 /\ month <= 5 -> "Spring"
           [] month >= 6 /\ month <= 8 -> "Summer"
           [] month >= 9 /\ month <= 11 -> "Fall"
           [] OTHER -> "Winter"
    ELSE CASE month >= 9 \/ month <= 2 -> "Summer"
           [] month >= 3 /\ month <= 5 -> "Fall"
           [] month >= 6 /\ month <= 8 -> "Winter"
           [] OTHER -> "Spring"

\* generateEnhancedRecommendation: the text, as the parts it is put together
\* from: the multi-field prefix and suffix, the assessment, the climate zone
\* and the season where the assessment's sentence names them, and the
\* climate advice.  The season is the season of new Date(), the clock.
generateEnhancedRecommendation(ndvi, soilMoisture, latitude, fieldCount, now) ==
    LET climateZone == getClimateZone(latitude)
        season == getSeason(now, latitude)
        assessment ==
            CASE ndvi > 70000 /\ soilMoisture > 6000000 -> "excellent"
              [] ndvi > 60000 /\ soilMoisture > 5000000 -> "good"
              [] ndvi > 40000 /\ soilMoisture > 4000000 -> "moderate"
              [] ndvi > 30000 /\ soilMoisture < 3000000 -> "low_moisture"
              [] ndvi < 30000 -> "poor"
              [] OTHER -> "mixed"
    IN  [multiField |-> fieldCount > 1,
         assessment |-> assessment,
         zone |-> IF assessment \in {"excellent", "moderate", "poor", "mixed"}
                  THEN climateZone ELSE "",
         season |-> IF assessment \in {"excellent", "good", "low_moisture", "mixed"}
                    THEN season ELSE "",
         advice |-> CASE climateZone = "Tropical" /\ soilMoisture > 7000000 -> "fungal"
                      [] climateZone = "Arid" /\ soilMoisture < 4000000 -> "water"
                      [] OTHER -> ""]

\* generateEnhancedMockData(farmerId, latitude, longitude, date, fieldBoundaries)
\* called when the clock's month is now.
generateEnhancedMockData(farmerId, latitude, date, fields, now) ==
    LET seed == hashCode(IdString(farmerId) \o date)
        fieldCount == IF fields = 0 THEN 1 ELSE fields
        hasMultipleFields == fieldCount > 1
        latitudeFactor == Max(30, 100 - (100 * Abs(latitude)) \div 90)
        month == GetMonth(date)
        baseNDVI == latitudeFactor * getSeasonalFactor(month, latitude)
                        * getClimateFactor(latitude)
                        * (IF hasMultipleFields THEN 11 ELSE 10)
                    + (IF hasMultipleFields THEN 5000 ELSE 0)
        ndviVariation == (seededRandom(seed, 1) - 500) * 15
        ndviScore == Max(10000, Min(90000, baseNDVI + ndviVariation))
        baseMoisture == ndviScore * 55 + 2500000
        fieldVariation == (seededRandom(seed, 2) - 500)
                              * (IF hasMultipleFields THEN 1500 ELSE 2000)
        soilMoisture == Max(1500000, Min(8500000, baseMoisture + fieldVariation))
        vegetationIndex == ndviScore * 95 + (IF hasMultipleFields THEN 500000 ELSE 0)
    IN  [farmerId |-> farmerId,
         imageDate |-> date,
         ndviScore |-> (ndviScore + 50) \div 100,
         soilMoisture |-> (soilMoisture + 5000) \div 10000,
         vegetationIndex |-> (vegetationIndex + 5000) \div 10000,
         recommendation |-> generateEnhancedRecommendation(ndviScore, soilMoisture,
                                                           latitude, fields, now),
         sentinelData |->
             [acquisitionDate |-> date,
              cloudCoverage |-> (seededRandom(seed, 3) * 25 + 500) \div 1000,
              season |-> getSeason(month, latitude),
              climateZone |-> getClimateZone(latitude),
              dataSource |-> "Enhanced Mock Data",
              qualityScore |-> (75000 + seededRandom(seed, 4) * 25 + 500) \div 1000,
              fieldCount |-> fieldCount,
              enhancedPrecision |-> hasMultipleFields,
              apiResponse |-> FALSE]]

\* One call of the generator: client holds the arguments, the month in which
\* the call was made and the insight returned.
GenerateEnhancedMockData(farmerId, latitude, date, fields) ==
    /\ \E now \in Months :
         client' = Result("generateEnhancedMockData", "returned", farmerId, "mock",
                          "none", "none")
                   @@ [arguments |-> <<farmerId, latitude, date, fields>>,
                       now |-> now,
                       insight |-> generateEnhancedMockData(farmerId, latitude, date,
                                                            fields, now)]
    /\ response' = NoResponse /\ outbound' = <<>>
    /\ UNCHANGED <<calc, dbVars, pc, local, maps>>

NextMock ==
    \E farmerId \in FarmerIds, latitude \in Latitudes, date \in Dates, fields \in FieldCounts :
        GenerateEnhancedMockData(farmerId, latitude, date, fields)
SpecMock == InitMaps /\ [][NextMock]_vars

C23_ThanksMeansStored ==
    [][\A req \in TwilioIvrCalls :
          (TwilioIvrPost(req) /\ response'.body = "twiml_thanks") =>
              \E i \in 1..Len(ivr_calls') :
                  /\ ivr_calls'[i].id \notin Ids(ivr_calls)
                  /\ ivr_calls'[i].farmer_id = req.farmer_id
                  /\ ivr_calls'[i].crop_condition = ParseInt(req.Digits)]_vars

====
